---------------------------- MODULE Spec2Model ----------------------------
(***************************************************************************)
(* Model of the Firecracker VMM supervisor (src/vmm/src/lib.rs, struct Vmm *)
(* and its action handlers, x86_64 build, vsock feature off) and of the    *)
(* pre-boot / runtime API controllers                                      *)
(* (src/src/vmm/src/rpc_interface/controllers.rs).                         *)
(*                                                                         *)
(* Every VmmAction handler is one atomic action: the supervisor thread     *)
(* runs a handler to completion before it dequeues the next action.  What  *)
(* the environment decides (a file that cannot be opened, a KVM call that  *)
(* fails, a vCPU that answers after the timeout, the guest activating a    *)
(* device) is an existentially quantified input of the action.            *)
(*                                                                         *)
(* PauseSpec and BootSpec follow one handler statement by statement, with  *)
(* the vCPU threads in between; BootSpec does so for both target           *)
(* architectures.  The units of translator/mod.rs and of                   *)
(* cpuid/src/transformer/mod.rs have specifications of their own.          *)
(*                                                                         *)
(* Option<T> is modelled as a sequence of length at most one.              *)
(***************************************************************************)
EXTENDS Integers, Sequences, FiniteSets, TLC

\* ------------------------------------------------------------------------
\* Bounds of the model
\* ------------------------------------------------------------------------
MaxVcpus == 3
MaxMemMib == 1
MaxDrives == 2
MaxPaths == 2
MaxNets == 1

\* ------------------------------------------------------------------------
\* Program constants
\* ------------------------------------------------------------------------
DEFAULT_VCPU_COUNT == 1
DEFAULT_MEM_SIZE_MIB == 128
FC_EXIT_CODE_OK == 0
FC_EXIT_CODE_GENERIC_ERROR == 1
FC_EXIT_CODE_UNEXPECTED_ERROR == 2
FC_EXIT_CODE_RESUME_ERROR == 151
BLOCK_EVENTS_COUNT == 2
NET_EVENTS_COUNT == 4
TYPE_NET == 1
TYPE_BLOCK == 2

\* ------------------------------------------------------------------------
\* Option<T>
\* ------------------------------------------------------------------------
None == <<>>
Some(x) == <<x>>
IsSome(o) == o # <<>>
IsNone(o) == o = <<>>
Unwrap(o) == o[1]
Opt(S) == {None} \cup {Some(x) : x \in S}

Range(s) == {s[i] : i \in 1..Len(s)}

\* ------------------------------------------------------------------------
\* State
\* ------------------------------------------------------------------------
VARIABLES
    shared_info,                \* InstanceInfo behind the RwLock: [state]
    vm_config,                  \* Vmm.vm_config
    kernel_config,              \* Vmm.kernel_config : Option<KernelConfig>
    block_device_configs,       \* Vmm.block_device_configs.config_list
    network_interface_configs,  \* Vmm.network_interface_configs
    guest_memory,               \* Vmm.guest_memory : Option<GuestMemory>
    mmio_device_manager,        \* Vmm.mmio_device_manager : Option<set of (type, id)>
    vcpus_handles,              \* Vmm.vcpus_handles : Seq of [state, responses]
    epoll_context,              \* Vmm.epoll_context
    exit_evt,                   \* Vmm.exit_evt : Option
    snapshot_image,             \* Vmm.snapshot_image : Option<SnapshotImage>
    boot_log,                   \* boot steps this Vmm has executed, in order
    outcome,                    \* last VmmRequestOutcome sent: [action, result]
    exit_code,                  \* Option<exit code> of the process (Vmm::stop)
    panicked,                   \* the VMM thread has panicked
    vm_resources,               \* PrebootApiController.vm_resources
    built_vmm,                  \* PrebootApiController.built_vmm : Option
    ctl_outcome,                \* last controller response: [controller, request, result]
    replaced,                   \* history: Option<the drive entry the last InsertBlockDevice replaced>
    from_api,                   \* Vmm.from_api: the actions sent and not yet received, [id, action]
    api_sent,                   \* number of actions the API thread has sent
    api_event,                  \* counter of Vmm.api_event's eventfd
    api_responses,              \* ids of the actions whose one-shot channel got an outcome, in order
    exit_cause,                 \* Option<what made a vCPU thread write exit_evt>
    snapshot_file,              \* what PauseToSnapshot has written to the snapshot image, in order
    sup_pc,                     \* where the supervisor is inside pause_to_snapshot: [at, i]
    barrier,                    \* number of threads waiting on the barrier of initiate_vcpu_pause
    vcpu_cmd,                   \* the vCPUs whose command channel holds a PauseToSnapshot
    translator,                 \* one call of create_snapshot_translator: [current, other, result]
    cpuid,                      \* one call of process_cpuid: [transformer, entries, visited, result]
    target_arch,                \* the architecture the program is built for
    boot_pc,                    \* where the supervisor is inside an action: [op, pc, phase, i, ops, ...]
    vcpu_events,                \* per vCPU: the events in its channel, not yet received by the thread
    events_sent,                \* history, per vCPU: the events the supervisor has sent to it
    responses_read              \* history, per vCPU: the responses the supervisor has read from it

vmm_vars == <<shared_info, vm_config, kernel_config, block_device_configs,
              network_interface_configs, guest_memory, mmio_device_manager,
              vcpus_handles, epoll_context, exit_evt, snapshot_image, boot_log,
              outcome, exit_code, panicked>>
ctl_vars == <<vm_resources, built_vmm, ctl_outcome>>
vars == <<shared_info, vm_config, kernel_config, block_device_configs,
          network_interface_configs, guest_memory, mmio_device_manager,
          vcpus_handles, epoll_context, exit_evt, snapshot_image, boot_log,
          outcome, exit_code, panicked, vm_resources, built_vmm, ctl_outcome,
          replaced, from_api, api_sent, api_event, api_responses, exit_cause,
          snapshot_file, sup_pc, barrier, vcpu_cmd, translator, cpuid,
          target_arch, boot_pc, vcpu_events, events_sent, responses_read>>
\* What the main loop of run_control adds to the Vmm's own fields.
pause_vars == <<sup_pc, barrier, vcpu_cmd>>
\* The state of the units that are checked on their own.
unit_vars == <<translator, cpuid>>
\* The state of the supervisor and of the vCPU channels when an action is followed
\* step by step.
boot_vars == <<target_arch, boot_pc, vcpu_events, events_sent, responses_read>>
other_vars == <<unit_vars, boot_vars>>
loop_vars == <<from_api, api_sent, api_event, api_responses, exit_cause,
               snapshot_file, pause_vars, other_vars>>

\* ------------------------------------------------------------------------
\* Instance state
\* ------------------------------------------------------------------------
InstanceState == {"Uninitialized", "Starting", "Running", "Resuming", "Halting", "Halted"}

instance_state == shared_info.state

is_instance_initialized == instance_state # "Uninitialized"

\* A request's outcome, Result<VmmData, VmmActionError>: val names the VmmData variant
\* or the error, data holds what a VmmData::MachineConfiguration carries.
Ok(data) == [ok |-> TRUE, val |-> data, data |-> <<>>]
OkMachineConfiguration(config) ==
    [ok |-> TRUE, val |-> "MachineConfiguration", data |-> <<config>>]
Err(e) == [ok |-> FALSE, val |-> e, data |-> <<>>]
Sent(action, res) == [action |-> action, result |-> res]

\* ------------------------------------------------------------------------
\* VmConfig (vmm_config::machine_config)
\* ------------------------------------------------------------------------
VmConfigDefault ==
    [vcpu_count |-> DEFAULT_VCPU_COUNT, mem_size_mib |-> DEFAULT_MEM_SIZE_MIB,
     ht_enabled |-> FALSE, cpu_template |-> "None"]

ValidVmConfig(c) ==
    /\ c.vcpu_count >= 1
    /\ c.mem_size_mib >= 1
    /\ (c.ht_enabled => (c.vcpu_count = 1 \/ c.vcpu_count % 2 = 0))

\* Vmm::set_vm_configuration as it would be without the check that the instance is
\* not initialized.
set_vm_configuration_unguarded(machine_config) ==
    LET ht == IF IsSome(machine_config.ht_enabled)
              THEN Unwrap(machine_config.ht_enabled) ELSE vm_config.ht_enabled
        vc == IF IsSome(machine_config.vcpu_count)
              THEN Unwrap(machine_config.vcpu_count) ELSE vm_config.vcpu_count
    IN  IF IsSome(machine_config.vcpu_count) /\ Unwrap(machine_config.vcpu_count) = 0
        THEN [res |-> Err("InvalidVcpuCount"), cfg |-> vm_config]
        ELSE IF IsSome(machine_config.mem_size_mib) /\ Unwrap(machine_config.mem_size_mib) = 0
        THEN [res |-> Err("InvalidMemorySize"), cfg |-> vm_config]
        ELSE IF ht /\ vc > 1 /\ vc % 2 = 1
        THEN [res |-> Err("InvalidVcpuCount"), cfg |-> vm_config]
        ELSE [res |-> Ok("Empty"),
              cfg |-> [vcpu_count |-> vc,
                       mem_size_mib |-> IF IsSome(machine_config.mem_size_mib)
                                        THEN Unwrap(machine_config.mem_size_mib)
                                        ELSE vm_config.mem_size_mib,
                       ht_enabled |-> ht,
                       cpu_template |-> IF machine_config.cpu_template # "None"
                                        THEN machine_config.cpu_template
                                        ELSE vm_config.cpu_template]]

\* Result of Vmm::set_vm_configuration: the outcome and the stored config after it.
set_vm_configuration(machine_config) ==
    LET ht == IF IsSome(machine_config.ht_enabled)
              THEN Unwrap(machine_config.ht_enabled) ELSE vm_config.ht_enabled
        vc == IF IsSome(machine_config.vcpu_count)
              THEN Unwrap(machine_config.vcpu_count) ELSE vm_config.vcpu_count
    IN  IF is_instance_initialized
        THEN [res |-> Err("UpdateNotAllowedPostBoot"), cfg |-> vm_config]
        ELSE IF IsSome(machine_config.vcpu_count) /\ Unwrap(machine_config.vcpu_count) = 0
        THEN [res |-> Err("InvalidVcpuCount"), cfg |-> vm_config]
        ELSE IF IsSome(machine_config.mem_size_mib) /\ Unwrap(machine_config.mem_size_mib) = 0
        THEN [res |-> Err("InvalidMemorySize"), cfg |-> vm_config]
        ELSE IF ht /\ vc > 1 /\ vc % 2 = 1
        THEN [res |-> Err("InvalidVcpuCount"), cfg |-> vm_config]
        ELSE [res |-> Ok("Empty"),
              cfg |-> [vcpu_count |-> vc,
                       mem_size_mib |-> IF IsSome(machine_config.mem_size_mib)
                                        THEN Unwrap(machine_config.mem_size_mib)
                                        ELSE vm_config.mem_size_mib,
                       ht_enabled |-> ht,
                       cpu_template |-> IF machine_config.cpu_template # "None"
                                        THEN machine_config.cpu_template
                                        ELSE vm_config.cpu_template]]

\* ------------------------------------------------------------------------
\* Block device configurations (vmm_config::drive::BlockDeviceConfigs)
\* ------------------------------------------------------------------------
DriveIds == 1..MaxDrives
\* Host paths 1..MaxPaths name files that exist; path 0 names no file.
ExistingPaths == 1..MaxPaths
MissingPath == 0

BlockDeviceConfig ==
    [drive_id : DriveIds, path_on_host : {MissingPath} \cup ExistingPaths,
     is_root_device : BOOLEAN, partuuid : {"None", "uuid"}, is_read_only : BOOLEAN]

get_index_of_drive_id(list, drive_id) ==
    IF \E i \in 1..Len(list) : list[i].drive_id = drive_id
    THEN Some(CHOOSE i \in 1..Len(list) : list[i].drive_id = drive_id)
    ELSE None

has_root_block_device(list) == \E i \in 1..Len(list) : list[i].is_root_device
has_partuuid_root(list) ==
    \E i \in 1..Len(list) : list[i].is_root_device /\ list[i].partuuid # "None"
has_read_only_root(list) ==
    \E i \in 1..Len(list) : list[i].is_root_device /\ list[i].is_read_only

RemoveAt(s, i) == SubSeq(s, 1, i - 1) \o SubSeq(s, i + 1, Len(s))

\* BlockDeviceConfigs::insert as it would be if an accepted configuration were always
\* added to the end of the list.
BlockDeviceConfigs_insert_append(list, cfg) ==
    LET idx == get_index_of_drive_id(list, cfg.drive_id)
        others == IF IsSome(idx) THEN RemoveAt(list, Unwrap(idx)) ELSE list
    IN  IF cfg.path_on_host \notin ExistingPaths
        THEN [res |-> Err("InvalidBlockDevicePath"), list |-> list]
        ELSE IF \E i \in 1..Len(others) : others[i].path_on_host = cfg.path_on_host
        THEN [res |-> Err("BlockDevicePathAlreadyExists"), list |-> list]
        ELSE IF cfg.is_root_device /\ has_root_block_device(others)
        THEN [res |-> Err("RootBlockDeviceAlreadyAdded"), list |-> list]
        ELSE [res |-> Ok("Empty"), list |-> Append(list, cfg)]

\* BlockDeviceConfigs::insert: an existing drive_id is updated in place, a new one is
\* created; the root device is kept first in the list.
BlockDeviceConfigs_insert(list, cfg) ==
    LET idx == get_index_of_drive_id(list, cfg.drive_id)
        others == IF IsSome(idx) THEN RemoveAt(list, Unwrap(idx)) ELSE list
    IN  IF cfg.path_on_host \notin ExistingPaths
        THEN [res |-> Err("InvalidBlockDevicePath"), list |-> list]
        ELSE IF \E i \in 1..Len(others) : others[i].path_on_host = cfg.path_on_host
        THEN [res |-> Err("BlockDevicePathAlreadyExists"), list |-> list]
        ELSE IF cfg.is_root_device /\ has_root_block_device(others)
        THEN [res |-> Err("RootBlockDeviceAlreadyAdded"), list |-> list]
        ELSE IF cfg.is_root_device
        THEN [res |-> Ok("Empty"), list |-> <<cfg>> \o others]
        ELSE IF IsSome(idx)
        THEN [res |-> Ok("Empty"), list |-> [list EXCEPT ![Unwrap(idx)] = cfg]]
        ELSE [res |-> Ok("Empty"), list |-> Append(list, cfg)]

\* Vmm::insert_block_device
insert_block_device(block_device_config) ==
    IF is_instance_initialized
    THEN [res |-> Err("UpdateNotAllowedPostBoot"), list |-> block_device_configs]
    ELSE BlockDeviceConfigs_insert(block_device_configs, block_device_config)

\* ------------------------------------------------------------------------
\* Network interface configurations (vmm_config::net::NetworkInterfaceConfigs)
\* ------------------------------------------------------------------------
IfaceIds == 1..MaxNets
HostDevNames == 1..MaxNets
TokenBuckets == 1..MaxNets
RateLimiterConfig == [bandwidth : Opt(TokenBuckets), ops : Opt(TokenBuckets)]

NetworkInterfaceConfig ==
    [iface_id : IfaceIds, host_dev_name : HostDevNames, guest_mac : Opt(1..MaxNets),
     rx_rate_limiter : Opt(RateLimiterConfig), tx_rate_limiter : Opt(RateLimiterConfig),
     allow_mmds_requests : BOOLEAN, tap : BOOLEAN]

NetworkInterfaceUpdateConfig ==
    [iface_id : 0..MaxNets, rx_rate_limiter : Opt(RateLimiterConfig),
     tx_rate_limiter : Opt(RateLimiterConfig)]

\* NetworkInterfaceConfigs::insert: an existing iface_id is updated, a new one is created;
\* host device names and guest MACs stay unique; the tap is opened here (tap_ok says
\* whether the host lets it).
NetworkInterfaceConfigs_insert(list, body, tap_ok) ==
    LET others == SelectSeq(list, LAMBDA c : c.iface_id # body.iface_id)
    IN  IF \E i \in 1..Len(others) : others[i].host_dev_name = body.host_dev_name
        THEN [res |-> Err("HostDeviceNameInUse"), list |-> list]
        ELSE IF /\ IsSome(body.guest_mac)
                /\ \E i \in 1..Len(others) : others[i].guest_mac = body.guest_mac
        THEN [res |-> Err("GuestMacAddressInUse"), list |-> list]
        ELSE IF ~tap_ok
        THEN [res |-> Err("OpenTap"), list |-> list]
        ELSE [res |-> Ok("Empty"),
              list |-> IF \E i \in 1..Len(list) : list[i].iface_id = body.iface_id
                       THEN [i \in 1..Len(list) |->
                               IF list[i].iface_id = body.iface_id
                               THEN [body EXCEPT !.tap = TRUE] ELSE list[i]]
                       ELSE Append(list, [body EXCEPT !.tap = TRUE])]

\* Vmm::insert_net_device
insert_net_device(body, tap_ok) ==
    IF is_instance_initialized
    THEN [res |-> Err("UpdateNotAllowedPostBoot"), list |-> network_interface_configs]
    ELSE NetworkInterfaceConfigs_insert(network_interface_configs, body, tap_ok)

\* An update that takes the whole of the new limiter.
RateLimiterConfig_update_replacing(old, new) == new

\* RateLimiterConfig::update: only the buckets the new configuration names are replaced.
RateLimiterConfig_update(old, new) ==
    [bandwidth |-> IF IsSome(new.bandwidth) THEN new.bandwidth ELSE old.bandwidth,
     ops |-> IF IsSome(new.ops) THEN new.ops ELSE old.ops]

\* The pre-boot branch of Vmm::update_net_device, applied to one stored configuration.
update_net_cfg(old_cfg, new_cfg) ==
    LET rx == IF IsSome(new_cfg.rx_rate_limiter)
              THEN IF IsSome(old_cfg.rx_rate_limiter)
                   THEN Some(RateLimiterConfig_update(Unwrap(old_cfg.rx_rate_limiter),
                                                      Unwrap(new_cfg.rx_rate_limiter)))
                   ELSE new_cfg.rx_rate_limiter
              ELSE old_cfg.rx_rate_limiter
        tx == IF IsSome(new_cfg.tx_rate_limiter)
              THEN IF IsSome(old_cfg.tx_rate_limiter)
                   THEN Some(RateLimiterConfig_update(Unwrap(old_cfg.tx_rate_limiter),
                                                      Unwrap(new_cfg.tx_rate_limiter)))
                   ELSE new_cfg.tx_rate_limiter
              ELSE old_cfg.tx_rate_limiter
    IN  [old_cfg EXCEPT !.rx_rate_limiter = rx, !.tx_rate_limiter = tx]

\* ------------------------------------------------------------------------
\* EpollContext
\* ------------------------------------------------------------------------
\* A dispatch_table slot: Option<EpollDispatch>; dev and tok are 0 unless kind is
\* DeviceHandler (device_handlers is indexed from 0 in the source, from 1 here, so
\* the stored dev is the source index).
NoDispatch == [kind |-> "None", dev |-> 0, tok |-> 0]
Dispatch(kind) == [kind |-> kind, dev |-> 0, tok |-> 0]
DeviceHandler(device_idx, token) == [kind |-> "DeviceHandler", dev |-> device_idx, tok |-> token]

\* EpollContext::new.  `registered` is what add_event has put into the epoll set of
\* epoll_raw_fd: the u64 data given to epoll::ctl and the token meant by it.
EpollContext_new ==
    [stdin_index |-> 0,
     dispatch_table |-> <<NoDispatch>>,
     device_handlers |-> <<>>,
     device_id_to_handler_id |-> {},
     registered |-> {}]

\* A binding to device_handlers.len() in place of device_handlers.len() - 1.
allocate_virtio_tokens_unshifted(ep, type_id, device_id, count) ==
    [ep EXCEPT
        !.dispatch_table =
            @ \o [x \in 1..count |-> DeviceHandler(Len(ep.device_handlers), x - 1)],
        !.device_handlers = Append(@, [handler |-> FALSE, receiver |-> 0]),
        !.device_id_to_handler_id =
            {e \in @ : ~(e.type = type_id /\ e.id = device_id)}
            \cup {[type |-> type_id, id |-> device_id,
                   handler |-> Len(ep.device_handlers) + 1]}]

\* EpollContext::add_event: dispatch_index is the length before the push.
add_event(ep, token) ==
    [ep EXCEPT
        !.dispatch_table = Append(@, Dispatch(token)),
        !.registered = @ \cup {[data |-> Len(ep.dispatch_table), token |-> token]}]

\* EpollContext::enable_stdin_event; ctl_ok is whether EPOLL_CTL_ADD on stdin succeeds.
enable_stdin_event(ep, ctl_ok) ==
    IF ctl_ok
    THEN [ep EXCEPT !.dispatch_table[ep.stdin_index + 1] = Dispatch("Stdin")]
    ELSE ep

\* A disable that only removes stdin from the epoll set and keeps the slot.
disable_stdin_event_keeping_slot(ep) == ep

\* A disable that drops the table from the stdin slot on.
disable_stdin_event_truncating(ep) ==
    [ep EXCEPT !.dispatch_table = SubSeq(@, 1, ep.stdin_index)]

\* EpollContext::disable_stdin_event
disable_stdin_event(ep) ==
    [ep EXCEPT !.dispatch_table[ep.stdin_index + 1] = NoDispatch]

\* The first component of what allocate_tokens returns: dispatch_base, the length of
\* the table before the call (a 0-based index; position dispatch_base + 1 here).
dispatch_base(ep) == Len(ep.dispatch_table)

\* An allocation that numbers the events of the device from 1.
allocate_tokens_from_one(ep, count) ==
    LET device_idx == Len(ep.device_handlers)
    IN  [ep EXCEPT
            !.dispatch_table = @ \o [x \in 1..count |-> DeviceHandler(device_idx, x)],
            !.device_handlers = Append(@, [handler |-> FALSE, receiver |-> 0])]

\* EpollContext::allocate_tokens: the context after the call.
allocate_tokens(ep, count) ==
    LET device_idx == Len(ep.device_handlers)
    IN  [ep EXCEPT
            !.dispatch_table = @ \o [x \in 1..count |-> DeviceHandler(device_idx, x - 1)],
            !.device_handlers = Append(@, [handler |-> FALSE, receiver |-> 0])]

\* EpollContext::allocate_virtio_tokens
allocate_virtio_tokens(ep, type_id, device_id, count) ==
    LET ep1 == allocate_tokens(ep, count)
    IN  [ep1 EXCEPT !.device_id_to_handler_id =
            {e \in @ : ~(e.type = type_id /\ e.id = device_id)}
            \cup {[type |-> type_id, id |-> device_id,
                   handler |-> Len(ep1.device_handlers) - 1]}]

\* A lookup that takes the handler off the channel and hands it out without caching
\* it in the slot.
get_device_handler_by_handler_id_uncached(ep, id) ==
    LET maybe == ep.device_handlers[id + 1]
    IN  IF maybe.handler
        THEN [ok |-> TRUE, ep |-> ep]
        ELSE IF maybe.receiver > 0
        THEN [ok |-> TRUE,
              ep |-> [ep EXCEPT !.device_handlers[id + 1].receiver = maybe.receiver - 1]]
        ELSE [ok |-> FALSE, ep |-> ep]

\* EpollContext::get_device_handler_by_handler_id (id is the source's 0-based index):
\* a cached handler is returned; otherwise one try_recv on the slot's channel.
get_device_handler_by_handler_id(ep, id) ==
    LET maybe == ep.device_handlers[id + 1]
    IN  IF maybe.handler
        THEN [ok |-> TRUE, ep |-> ep]
        ELSE IF maybe.receiver > 0
        THEN [ok |-> TRUE,
              ep |-> [ep EXCEPT !.device_handlers[id + 1] =
                         [handler |-> TRUE, receiver |-> maybe.receiver - 1]]]
        ELSE [ok |-> FALSE, ep |-> ep]

\* EpollContext::get_generic_device_handler_by_device_id / get_device_handler_by_device_id
get_device_handler_by_device_id(ep, type_id, device_id) ==
    LET hit == {e \in ep.device_id_to_handler_id : e.type = type_id /\ e.id = device_id}
    IN  IF hit = {}
        THEN [ok |-> FALSE, ep |-> ep]
        ELSE get_device_handler_by_handler_id(ep, (CHOOSE e \in hit : TRUE).handler)

\* ------------------------------------------------------------------------
\* Kernel configuration
\* ------------------------------------------------------------------------
\* The command line is the sequence of the fragments inserted into it.
KernelImagePaths == {"valid", "invalid"}
BootArgs == Opt({"custom", "too_long"})

\* Vmm::configure_boot_source
configure_boot_source(kernel_image_path, kernel_cmdline) ==
    IF is_instance_initialized
    THEN [res |-> Err("UpdateNotAllowedPostBoot"), cfg |-> kernel_config]
    ELSE IF kernel_image_path # "valid"
    THEN [res |-> Err("InvalidKernelPath"), cfg |-> kernel_config]
    ELSE IF kernel_cmdline = Some("too_long")
    THEN [res |-> Err("InvalidKernelCommandLine"), cfg |-> kernel_config]
    ELSE [res |-> Ok("Empty"),
          cfg |-> Some([cmdline |-> IF IsSome(kernel_cmdline)
                                    THEN <<Unwrap(kernel_cmdline)>>
                                    ELSE <<"DEFAULT_KERNEL_CMDLINE">>])]

\* Vmm::check_health
check_health == IsSome(kernel_config)

\* ------------------------------------------------------------------------
\* vCPU handles (vstate::VcpuHandle) and the command protocol
\* ------------------------------------------------------------------------
\* A handle is [state, responses]: the state of the vCPU thread and the responses it
\* has sent that the supervisor has not read yet.
VcpuCreated == [state |-> "Created", responses |-> <<>>]

\* One command handled by the vCPU thread: every Pause, Resume and Deserialize is
\* answered once.  A thread blocked on a snapshot barrier serves no command.
vcpu_handle_event(h, ev) ==
    CASE h.state = "Barrier" -> h
      [] ev = "Resume" -> [state |-> "Running", responses |-> Append(h.responses, "Resumed")]
      [] ev = "Pause" -> [state |-> "Paused", responses |-> Append(h.responses, "Paused")]
      [] ev = "Deserialize" -> [state |-> "Paused",
                                responses |-> Append(h.responses, "Deserialized")]
      [] OTHER -> h

\* VcpuHandle::validate_active: the thread has been started and has not exited.
validate_active(h) == h.state \in {"Paused", "Running", "Barrier"}

\* The supervisor sends ev to every vCPU and then reads one response from each, in
\* order, with recv_timeout.  first_late = 0: every vCPU answers in time; otherwise
\* vCPU first_late answers after the timeout.  The loop stops at the first response
\* that is missing or is not `expected`; every vCPU still handles the command.
send_and_collect(handles, ev, expected, first_late) ==
    LET n == Len(handles)
        answered == [i \in 1..n |-> vcpu_handle_event(handles[i], ev)]
        \* what vCPU i's channel holds when the supervisor reads it
        visible(i) == IF i = first_late THEN handles[i].responses
                      ELSE answered[i].responses
        good(i) == visible(i) # <<>> /\ Head(visible(i)) = expected
        bad == {i \in 1..n : ~good(i)}
        stop == IF bad = {} THEN n + 1 ELSE CHOOSE i \in bad : \A j \in bad : i <= j
    IN  [ok |-> bad = {},
         handles |-> [i \in 1..n |->
            IF i < stop \/ (i = stop /\ visible(i) # <<>>)
            THEN [answered[i] EXCEPT !.responses = Tail(@)]
            ELSE answered[i]]]

\* Vmm::validate_vcpus_are_active
validate_vcpus_are_active(initialized, handles) ==
    IF ~initialized THEN Err("MicroVMIsNotRunning")
    ELSE IF \E i \in 1..Len(handles) : ~validate_active(handles[i])
    THEN Err("VcpusInvalidState")
    ELSE Ok("Empty")

\* Vmm::resume_vcpus
resume_vcpus(initialized, handles, first_late) ==
    LET v == validate_vcpus_are_active(initialized, handles)
        c == send_and_collect(handles, "Resume", "Resumed", first_late)
    IN  IF ~v.ok THEN [res |-> v, handles |-> handles]
        ELSE IF ~c.ok THEN [res |-> Err("VcpuResume"), handles |-> c.handles]
        ELSE [res |-> Ok("Empty"), handles |-> c.handles]

\* Vmm::pause_vcpus
pause_vcpus(initialized, handles, first_late) ==
    LET v == validate_vcpus_are_active(initialized, handles)
        c == send_and_collect(handles, "Pause", "Paused", first_late)
    IN  IF ~v.ok THEN [res |-> v, handles |-> handles]
        ELSE IF ~c.ok THEN [res |-> Err("VcpuPause"), handles |-> c.handles]
        ELSE [res |-> Ok("Empty"), handles |-> c.handles]

\* ------------------------------------------------------------------------
\* Boot (Vmm::start_microvm, x86_64)
\* ------------------------------------------------------------------------
RootFragments(d) ==
    <<IF d.partuuid # "None" THEN "root=PARTUUID=uuid" ELSE "root=/dev/vda",
      IF d.is_read_only THEN "ro" ELSE "rw">>

\* MMIODeviceManager::register_virtio_device as it would be if it left the kernel
\* command line alone.
register_virtio_device_silent(devs, cmdline, type_id, device_id) ==
    [devs |-> devs \cup {<<type_id, device_id>>}, cmdline |-> cmdline]

\* MMIODeviceManager::register_virtio_device: the device is put on the bus under
\* (type_id, device_id) and one virtio_mmio.device fragment is appended to the kernel
\* command line.
register_virtio_device(devs, cmdline, type_id, device_id) ==
    [devs |-> devs \cup {<<type_id, device_id>>},
     cmdline |-> Append(cmdline, "virtio_mmio.device")]

\* The loop of Vmm::attach_block_devices over config_list from position i on.
\* st = [ep, devs, cmdline]; stop_at = 0: every drive is attached; stop_at = k: drive k
\* fails, at open (after_alloc = FALSE) or when the device is created or registered
\* (after_alloc = TRUE).
RECURSIVE attach_block_loop(_, _, _, _, _)
attach_block_loop(st, list, i, stop_at, after_alloc) ==
    IF i > Len(list) \/ (i = stop_at /\ ~after_alloc)
    THEN st
    ELSE LET d == list[i]
             c1 == IF d.is_root_device /\ d.partuuid # "None"
                   THEN st.cmdline \o RootFragments(d) ELSE st.cmdline
             ep1 == allocate_virtio_tokens(st.ep, TYPE_BLOCK, d.drive_id,
                                           BLOCK_EVENTS_COUNT)
         IN  IF i = stop_at
             THEN [st EXCEPT !.ep = ep1, !.cmdline = c1]
             ELSE LET r == register_virtio_device(st.devs, c1, TYPE_BLOCK, d.drive_id)
                  IN  attach_block_loop([ep |-> ep1, devs |-> r.devs, cmdline |-> r.cmdline],
                                        list, i + 1, stop_at, after_alloc)

\* Vmm::attach_block_devices as it would be without the root= fragment that is
\* inserted before the loop.
attach_block_devices_no_vda(st, list, stop_at, after_alloc) ==
    attach_block_loop(st, list, 1, stop_at, after_alloc)

\* Vmm::attach_block_devices
attach_block_devices(st, list, stop_at, after_alloc) ==
    LET c0 == IF has_root_block_device(list) /\ ~has_partuuid_root(list)
              THEN st.cmdline \o
                   <<"root=/dev/vda", IF has_read_only_root(list) THEN "ro" ELSE "rw">>
              ELSE st.cmdline
    IN  attach_block_loop([st EXCEPT !.cmdline = c0], list, 1, stop_at, after_alloc)

\* The loop of Vmm::attach_net_devices.  st = [ep, devs, cmdline, nets, ok, err]; an interface
\* whose tap has been taken already fails with NetDeviceNotConfigured; stop_at = k
\* makes the device creation or registration of interface k fail.
RECURSIVE attach_net_loop(_, _, _)
attach_net_loop(st, i, stop_at) ==
    IF i > Len(st.nets) \/ ~st.ok
    THEN st
    ELSE LET cfg == st.nets[i]
             ep1 == allocate_virtio_tokens(st.ep, TYPE_NET, cfg.iface_id, NET_EVENTS_COUNT)
             nets1 == [st.nets EXCEPT ![i].tap = FALSE]
         IN  IF ~cfg.tap
             THEN [st EXCEPT !.ep = ep1, !.ok = FALSE, !.err = "NetDeviceNotConfigured"]
             ELSE IF i = stop_at
             THEN [st EXCEPT !.ep = ep1, !.nets = nets1, !.ok = FALSE,
                             !.err = "RegisterNetDevice"]
             ELSE LET r == register_virtio_device(st.devs, st.cmdline, TYPE_NET,
                                                  cfg.iface_id)
                  IN  attach_net_loop(
                         [ep |-> ep1, devs |-> r.devs, cmdline |-> r.cmdline,
                          nets |-> nets1, ok |-> TRUE, err |-> "none"],
                         i + 1, stop_at)

\* Vmm::create_vcpus: vcpu_count handles, or the first stop_at - 1 when creating
\* vCPU stop_at fails.
create_vcpus(vcpu_count, stop_at) ==
    [i \in 1..(IF stop_at = 0 THEN vcpu_count ELSE stop_at - 1) |-> VcpuCreated]

\* Vmm::start_vcpus: every thread comes up Paused; spawning vCPU stop_at fails.
start_vcpus(handles, stop_at) ==
    [i \in 1..Len(handles) |->
        IF stop_at = 0 \/ i < stop_at
        THEN [handles[i] EXCEPT !.state = "Paused"] ELSE handles[i]]

\* Vmm::register_events: the exit event is added and stdin enabled.
register_events(ep, stdin_ok) ==
    enable_stdin_event(add_event(ep, "Exit"), stdin_ok)

\* ------------------------------------------------------------------------
\* The Vmm fields a boot or a resume works on, and the steps they run.  A step is
\* b -> b: it does nothing once an earlier step has failed, and otherwise logs its
\* name, applies its effects and records the error it returns.  fp is the failure
\* the environment injects: [step, k, late], step "none" for none; k selects the
\* element of a loop (or the sub-step) that fails.
\* ------------------------------------------------------------------------
VmmFields ==
    [ok |-> TRUE, err |-> "none", log |-> <<>>,
     state |-> shared_info.state, vm_config |-> vm_config,
     kernel_config |-> kernel_config, nets |-> network_interface_configs,
     guest_memory |-> guest_memory, mmio |-> mmio_device_manager,
     handles |-> vcpus_handles, ep |-> epoll_context, exit_evt |-> exit_evt,
     snapshot_image |-> snapshot_image]

Fail(b, e) == [b EXCEPT !.ok = FALSE, !.err = e]
Logged(b, name) == [b EXCEPT !.log = Append(@, name)]

\* Vmm::create_snapshot_file, run only when StartMicroVm carries a snapshot path.
step_create_snapshot_file(b, fp, snapshot_path) ==
    IF ~b.ok \/ IsNone(snapshot_path) THEN b
    ELSE LET b1 == Logged(b, "create_snapshot_file")
         IN  IF fp.step = "create_snapshot_file" THEN Fail(b1, "SnapshotBackingFile")
             ELSE [b1 EXCEPT !.snapshot_image =
                      Some([vcpu_count |-> b.vm_config.vcpu_count,
                            mem_size_mib |-> b.vm_config.mem_size_mib])]

\* Vmm::init_guest_memory: k = 1 the allocation fails, k = 2 Vm::memory_init fails
\* (guest_memory is already set then).
step_init_guest_memory(b, fp) ==
    IF ~b.ok THEN b
    ELSE LET b1 == Logged(b, "init_guest_memory")
             b2 == [b1 EXCEPT !.guest_memory = Some(b.vm_config.mem_size_mib)]
         IN  IF fp.step = "init_guest_memory"
             THEN IF fp.k = 1 THEN Fail(b1, "GuestMemory") ELSE Fail(b2, "ConfigureVm")
             ELSE b2

\* Vmm::setup_interrupt_controller
step_setup_interrupt_controller(b, fp) ==
    IF ~b.ok THEN b
    ELSE IF fp.step = "setup_interrupt_controller"
    THEN Fail(Logged(b, "setup_interrupt_controller"), "ConfigureVm")
    ELSE Logged(b, "setup_interrupt_controller")

\* Vmm::init_mmio_device_manager: a manager is created unless there is one.
step_init_mmio_device_manager(b) ==
    IF ~b.ok THEN b
    ELSE IF IsSome(b.mmio) THEN Logged(b, "init_mmio_device_manager")
    ELSE IF IsNone(b.guest_memory)
    THEN Fail(Logged(b, "init_mmio_device_manager"), "GuestMemory")
    ELSE [Logged(b, "init_mmio_device_manager") EXCEPT !.mmio = Some({})]

\* Vmm::attach_block_devices: fp.k is the drive that fails, fp.late whether it fails
\* after its tokens were allocated (device creation or registration) or at open.
step_attach_block_devices(b, fp, list) ==
    IF ~b.ok THEN b
    ELSE LET b1 == Logged(b, "attach_block_devices")
             forced == fp.step = "attach_block_devices" /\ fp.k \in 1..Len(list)
             st == attach_block_devices(
                      [ep |-> b.ep, devs |-> Unwrap(b.mmio),
                       cmdline |-> Unwrap(b.kernel_config).cmdline],
                      list, IF forced THEN fp.k ELSE 0, fp.late)
             b2 == [b1 EXCEPT !.ep = st.ep, !.mmio = Some(st.devs),
                              !.kernel_config = Some([Unwrap(b.kernel_config)
                                                      EXCEPT !.cmdline = st.cmdline])]
         IN  IF forced
             THEN Fail(b2, IF fp.late THEN "RegisterBlockDevice" ELSE "OpenBlockDevice")
             ELSE b2

\* Vmm::attach_net_devices
step_attach_net_devices(b, fp) ==
    IF ~b.ok THEN b
    ELSE LET b1 == Logged(b, "attach_net_devices")
             forced == fp.step = "attach_net_devices" /\ fp.k \in 1..Len(b.nets)
             st == attach_net_loop(
                      [ep |-> b.ep, devs |-> Unwrap(b.mmio),
                       cmdline |-> Unwrap(b.kernel_config).cmdline,
                       nets |-> b.nets, ok |-> TRUE, err |-> "none"],
                      1, IF forced THEN fp.k ELSE 0)
             b2 == [b1 EXCEPT !.ep = st.ep, !.mmio = Some(st.devs), !.nets = st.nets,
                              !.kernel_config = Some([Unwrap(b.kernel_config)
                                                      EXCEPT !.cmdline = st.cmdline])]
         IN  IF st.ok THEN b2 ELSE Fail(b2, st.err)

\* Vmm::attach_virtio_devices
step_attach_virtio_devices(b, fp, list) ==
    step_attach_net_devices(
        step_attach_block_devices(step_init_mmio_device_manager(b), fp, list), fp)

\* A step whose only effect is the error it can return (attach_legacy_devices,
\* load_kernel, configure_vcpus_for_boot, configure_system, set_seccomp_level,
\* Vm::restore_state).
step_fallible(b, fp, name, error) ==
    IF ~b.ok THEN b
    ELSE IF fp.step = name THEN Fail(Logged(b, name), error)
    ELSE Logged(b, name)

\* Vmm::create_vcpus: fp.k is the vCPU whose creation fails.
step_create_vcpus(b, fp) ==
    IF ~b.ok THEN b
    ELSE LET b1 == Logged(b, "create_vcpus")
             forced == fp.step = "create_vcpus" /\ fp.k \in 1..b.vm_config.vcpu_count
         IN  IF b.handles # <<>> THEN Fail(b1, "VcpusAlreadyPresent")
             ELSE IF forced
             THEN Fail([b1 EXCEPT !.handles = create_vcpus(b.vm_config.vcpu_count, fp.k)],
                       "Vcpu")
             ELSE [b1 EXCEPT !.handles = create_vcpus(b.vm_config.vcpu_count, 0)]

\* Vmm::register_events: fp.k = 1 the exit event cannot be added; stdin_ok is
\* whether stdin can be added to the epoll set (a failure there is only logged).
step_register_events(b, fp, stdin_ok) ==
    IF ~b.ok THEN b
    ELSE LET b1 == Logged(b, "register_events")
         IN  IF fp.step = "register_events" THEN Fail(b1, "RegisterEvent")
             ELSE [b1 EXCEPT !.ep = register_events(b.ep, stdin_ok),
                             !.exit_evt = Some("Exit")]

\* Vmm::start_vcpus: fp.k is the vCPU whose thread cannot be spawned.
step_start_vcpus(b, fp) ==
    IF ~b.ok THEN b
    ELSE LET b1 == Logged(b, "start_vcpus")
             forced == fp.step = "start_vcpus" /\ fp.k \in 1..Len(b.handles)
         IN  IF forced
             THEN Fail([b1 EXCEPT !.handles = start_vcpus(b.handles, fp.k)], "VcpuSpawn")
             ELSE [b1 EXCEPT !.handles = start_vcpus(b.handles, 0)]

\* Vmm::resume_vcpus as a step, as it would be if its result were dropped.
step_resume_vcpus_unchecked(b, fp) ==
    IF ~b.ok THEN b
    ELSE LET r == resume_vcpus(b.state # "Uninitialized", b.handles,
                               IF fp.step = "resume_vcpus" THEN fp.k ELSE 0)
         IN  [Logged(b, "resume_vcpus") EXCEPT !.handles = r.handles]

\* Vmm::resume_vcpus as a step: fp.k is the first vCPU that answers too late.
step_resume_vcpus(b, fp) ==
    IF ~b.ok THEN b
    ELSE LET b1 == Logged(b, "resume_vcpus")
             r == resume_vcpus(b.state # "Uninitialized", b.handles,
                               IF fp.step = "resume_vcpus" THEN fp.k ELSE 0)
         IN  IF r.res.ok THEN [b1 EXCEPT !.handles = r.handles]
             ELSE Fail([b1 EXCEPT !.handles = r.handles], r.res.val)

\* The writes of shared_info.state in start_microvm and resume_from_snapshot; the
\* log keeps them among the steps.
step_set_state(b, s) == IF ~b.ok THEN b ELSE [Logged(b, s) EXCEPT !.state = s]

\* The body of Vmm::start_microvm after the already-running and health checks.
boot_sequence(b0, fp, snapshot_path, stdin_ok, list) ==
    LET b1 == step_set_state(b0, "Starting")
        b2 == step_create_snapshot_file(b1, fp, snapshot_path)
        b3 == step_init_guest_memory(b2, fp)
        b4 == step_setup_interrupt_controller(b3, fp)
        b5 == step_attach_virtio_devices(b4, fp, list)
        b6 == step_fallible(b5, fp, "attach_legacy_devices", "LegacyIOBus")
        b7 == step_fallible(b6, fp, "load_kernel", "KernelLoader")
        b8 == step_create_vcpus(b7, fp)
        b9 == step_fallible(b8, fp, "configure_vcpus_for_boot", "VcpuConfigure")
        b10 == step_fallible(b9, fp, "configure_system", "ConfigureSystem")
        b11 == step_register_events(b10, fp, stdin_ok)
        b12 == step_start_vcpus(b11, fp)
        b13 == step_fallible(b12, fp, "set_seccomp_level", "SeccompFilters")
        b14 == step_resume_vcpus(b13, fp)
    IN  step_set_state(b14, "Running")

\* Vmm::start_microvm as it would be without the already-running check.
start_microvm_unchecked(fp, snapshot_path, stdin_ok) ==
    IF ~check_health THEN Fail(VmmFields, "MissingKernelConfig")
    ELSE boot_sequence(VmmFields, fp, snapshot_path, stdin_ok, block_device_configs)

\* Vmm::start_microvm: the fields after the call; err is the error it returns.
start_microvm(fp, snapshot_path, stdin_ok) ==
    IF is_instance_initialized THEN Fail(VmmFields, "MicroVMAlreadyRunning")
    ELSE IF ~check_health THEN Fail(VmmFields, "MissingKernelConfig")
    ELSE boot_sequence(VmmFields, fp, snapshot_path, stdin_ok, block_device_configs)

\* ------------------------------------------------------------------------
\* Resume from snapshot (Vmm::resume_from_snapshot, x86_64)
\* ------------------------------------------------------------------------
\* What a snapshot file holds of the VmConfig it was created with.
SnapshotImages == [vcpu_count : 1..MaxVcpus, mem_size_mib : 1..MaxMemMib]

\* SnapshotImage::open_existing and can_deserialize: fp.k = 1 the file cannot be
\* opened, fp.k = 2 it cannot be deserialized.
step_open_existing(b, fp) ==
    IF ~b.ok THEN b
    ELSE IF fp.step = "open_existing"
    THEN Fail(Logged(b, "open_existing"), "OpenSnapshotFile")
    ELSE Logged(b, "open_existing")

\* vcpu_count and mem_size_mib of the stored VmConfig are replaced by the image's.
step_adopt_image(b, image) ==
    IF ~b.ok THEN b
    ELSE [b EXCEPT !.vm_config.vcpu_count = image.vcpu_count,
                   !.vm_config.mem_size_mib = image.mem_size_mib,
                   !.snapshot_image = Some(image)]

\* The device manager is replaced by a new one.
step_new_mmio_device_manager(b) ==
    IF ~b.ok THEN b
    ELSE IF IsNone(b.guest_memory) THEN Fail(b, "GuestMemory")
    ELSE [b EXCEPT !.mmio = Some({})]

\* The loop that sends every vCPU its saved state: fp.k is the vCPU whose state
\* cannot be read from the image; the vCPUs before it have been sent theirs.
step_deserialize_vcpus(b, fp) ==
    IF ~b.ok THEN b
    ELSE LET b1 == Logged(b, "deserialize_vcpus")
             forced == fp.step = "deserialize_vcpus" /\ fp.k \in 1..Len(b.handles)
             n == IF forced THEN fp.k - 1 ELSE Len(b.handles)
             sent == [i \in 1..Len(b.handles) |->
                        IF i <= n THEN vcpu_handle_event(b.handles[i], "Deserialize")
                        ELSE b.handles[i]]
         IN  IF forced THEN Fail([b1 EXCEPT !.handles = sent], "DeserializeVcpu")
             ELSE [b1 EXCEPT !.handles = sent]

\* The loop that reads one Deserialized from every vCPU: fp.k is the first vCPU
\* whose answer is not there in time.
step_collect_deserialized(b, fp) ==
    IF ~b.ok THEN b
    ELSE LET b1 == Logged(b, "collect_deserialized")
             n == Len(b.handles)
             late == IF fp.step = "collect_deserialized" /\ fp.k \in 1..n THEN fp.k ELSE 0
             good(i) == i # late /\ b.handles[i].responses # <<>>
                        /\ Head(b.handles[i].responses) = "Deserialized"
             bad == {i \in 1..n : ~good(i)}
             stop == IF bad = {} THEN n + 1 ELSE CHOOSE i \in bad : \A j \in bad : i <= j
             read == [i \in 1..n |->
                        IF i < stop \/ (i = stop /\ i # late /\ b.handles[i].responses # <<>>)
                        THEN [b.handles[i] EXCEPT !.responses = Tail(@)]
                        ELSE b.handles[i]]
         IN  IF bad = {} THEN [b1 EXCEPT !.handles = read]
             ELSE Fail([b1 EXCEPT !.handles = read], "RestoreVcpuState")

\* The body of Vmm::resume_from_snapshot after the already-running check.
resume_sequence(b0, fp, image, stdin_ok) ==
    LET b1 == step_open_existing(b0, fp)
        b2 == step_set_state(b1, "Resuming")
        b3 == step_adopt_image(b2, image)
        b4 == step_init_guest_memory(b3, fp)
        b5 == step_setup_interrupt_controller(b4, fp)
        b6 == step_fallible(b5, fp, "restore_state", "RestoreVmState")
        b7 == step_fallible(b6, fp, "attach_legacy_devices", "LegacyIOBus")
        b8 == step_new_mmio_device_manager(b7)
        b9 == step_register_events(b8, fp, stdin_ok)
        b10 == step_create_vcpus(b9, fp)
        b11 == step_start_vcpus(b10, fp)
        b12 == step_deserialize_vcpus(b11, fp)
        b13 == step_collect_deserialized(b12, fp)
        b14 == step_resume_vcpus(b13, fp)
    IN  step_set_state(b14, "Running")

\* The resume without its already-running check.
resume_from_snapshot_unchecked(fp, image, stdin_ok) ==
    resume_sequence(VmmFields, fp, image, stdin_ok)

\* Vmm::resume_from_snapshot: the fields after the call; err is the error it returns.
resume_from_snapshot(fp, image, stdin_ok) ==
    IF is_instance_initialized THEN Fail(VmmFields, "MicroVMAlreadyRunning")
    ELSE resume_sequence(VmmFields, fp, image, stdin_ok)

\* ------------------------------------------------------------------------
\* Pause to snapshot (Vmm::pause_to_snapshot, x86_64)
\* The failure the environment injects is fp = [step, k, late]: k selects the vCPU
\* the step fails for, late is whether vCPU 1 answers the Resume of the recovery
\* after its timeout.
\* ------------------------------------------------------------------------
\* The vCPU thread served a PauseToSnapshot(barrier): it has left the run call,
\* passed the barrier, saved its state (or failed to) and answered.
vcpu_pause_to_snapshot(h, saved) ==
    [state |-> "Paused",
     responses |-> Append(h.responses,
                          IF saved THEN "PausedToSnapshot" ELSE "SaveStateFailed")]

\* Vmm::initiate_vcpu_pause: [ok, err, handles].  When send_event fails for vCPU k the
\* function returns before it waits on the barrier: the vCPUs before k have the
\* command and stay blocked on a barrier that never fills.
initiate_vcpu_pause(handles, fp) ==
    LET n == Len(handles)
    IN  IF fp.step = "send_event" /\ fp.k \in 1..n
        THEN [ok |-> FALSE, err |-> "SignalVcpu",
              handles |-> [i \in 1..n |->
                  IF i < fp.k THEN [handles[i] EXCEPT !.state = "Barrier"]
                  ELSE handles[i]]]
        ELSE [ok |-> TRUE, err |-> "none",
              handles |-> [i \in 1..n |->
                  vcpu_pause_to_snapshot(handles[i],
                                         ~(fp.step = "save_state" /\ fp.k = i))]]

\* A write of Vmm::serialize_microvm to the snapshot image.
VcpuWrite(idx, i) == [what |-> "vcpu", slot |-> idx, vcpu |-> i]
ImageWrite(name) == [what |-> name, slot |-> 0, vcpu |-> 0]

\* The writes of the vCPU states: response i goes to slot idx = i - 1 of the image.
serialize_vcpus_swapped(n) == [i \in 1..n |-> VcpuWrite(n - i, i)]

serialize_vcpus(n) == [i \in 1..n |-> VcpuWrite(i - 1, i)]

\* Vmm::serialize_microvm: [ok, err, handles, file].  One response is read from every
\* vCPU with a timeout (fp.step = "collect": vCPU k has not answered by then) and the
\* collection stops at the first timeout; then the vCPU states, the VM state, the
\* header and the memory are written, up to the first failure.
serialize_microvm(handles, image, memory, file, fp) ==
    LET n == Len(handles)
        late == IF fp.step = "collect" THEN fp.k ELSE 0
        visible(i) == IF i = late
                      THEN SubSeq(handles[i].responses, 1, Len(handles[i].responses) - 1)
                      ELSE handles[i].responses
        timeouts == {i \in 1..n : visible(i) = <<>>}
        stop == IF timeouts = {} THEN n + 1
                ELSE CHOOSE i \in timeouts : \A j \in timeouts : i <= j
        read == [i \in 1..n |->
                    IF i < stop THEN [handles[i] EXCEPT !.responses = Tail(@)]
                    ELSE handles[i]]
        response(i) == Head(handles[i].responses)
        error(i) == IF response(i) = "PausedToSnapshot"
                    THEN IF IsNone(image) THEN "InvalidSnapshot"
                         ELSE IF fp.step = "serialize_vcpu" /\ fp.k = i
                         THEN "SerializeVcpu"
                         ELSE "none"
                    ELSE "SaveVcpuState"
        bad == {i \in 1..n : error(i) # "none"}
        first == CHOOSE i \in bad : \A j \in bad : i <= j
        vcpus == IF bad = {} THEN serialize_vcpus(n)
                 ELSE SubSeq(serialize_vcpus(n), 1, first - 1)
        f1 == file \o vcpus
        f2 == Append(f1, ImageWrite("vm_state"))
        f3 == Append(f2, ImageWrite("sync_header"))
        f4 == Append(f3, ImageWrite("sync_memory"))
        out(ok, err, f) == [ok |-> ok, err |-> err, handles |-> read, file |-> f]
    IN  IF timeouts # {} THEN out(FALSE, "VcpuPause", file)
        ELSE IF bad # {} THEN out(FALSE, error(first), f1)
        ELSE IF IsNone(image) THEN out(FALSE, "InvalidSnapshot", f1)
        ELSE IF fp.step = "save_vm_state" THEN out(FALSE, "SaveVmState", f1)
        ELSE IF fp.step = "sync_header" THEN out(FALSE, "SyncHeader", f2)
        ELSE IF IsNone(memory) \/ fp.step = "sync_memory" THEN out(FALSE, "SyncMemory", f3)
        ELSE out(TRUE, "none", f4)

\* Vmm::mmio_device_states / save_mmio_devices: [ok, panic, ep].  The handler of every
\* device on the bus is looked up (an activated device's handler is received from its
\* channel then); a device that has none is skipped.  fp.step = "save_mmio_devices":
\* the state of a device that has a handler cannot be built (taken to be the last one
\* visited, so every lookup has happened).
RECURSIVE lookup_handlers(_, _)
lookup_handlers(ep, devices) ==
    IF devices = {} THEN ep
    ELSE LET d == CHOOSE x \in devices : TRUE
         IN  lookup_handlers(get_device_handler_by_device_id(ep, d[1], d[2]).ep,
                             devices \ {d})

save_mmio_devices(mmio, ep, fp) ==
    IF IsNone(mmio) THEN [ok |-> FALSE, panic |-> TRUE, ep |-> ep]
    ELSE LET devices == Unwrap(mmio)
             with_handler == {d \in devices :
                                 get_device_handler_by_device_id(ep, d[1], d[2]).ok}
         IN  [ok |-> ~(fp.step = "save_mmio_devices" /\ with_handler # {}),
              panic |-> FALSE,
              ep |-> lookup_handlers(ep, devices)]

\* The recovery of pause_to_snapshot, resume_vcpus().expect(..): a failed resume panics.
resume_after_failed_pause(p, e, fp) ==
    LET r == resume_vcpus(TRUE, p.handles, IF fp.late THEN 1 ELSE 0)
    IN  [p EXCEPT !.ok = FALSE, !.err = e, !.handles = r.handles,
                  !.panic = ~r.res.ok]

\* The fields Vmm::pause_to_snapshot works on, before the call.
PauseFields ==
    [ok |-> TRUE, err |-> "none", panic |-> FALSE, handles |-> vcpus_handles,
     snapshot_image |-> snapshot_image, file |-> snapshot_file, ep |-> epoll_context]

\* Vmm::pause_to_snapshot from the return of initiate_vcpu_pause on; i is what
\* initiate_vcpu_pause returned and left of the vCPU handles.
pause_after_initiate(i, fp) ==
    LET p == PauseFields
        s == serialize_microvm(i.handles, snapshot_image, guest_memory, snapshot_file, fp)
        m == save_mmio_devices(mmio_device_manager, epoll_context, fp)
    IN  IF ~i.ok
        THEN resume_after_failed_pause([p EXCEPT !.handles = i.handles], i.err, fp)
        ELSE IF ~s.ok
        THEN resume_after_failed_pause([p EXCEPT !.handles = s.handles, !.file = s.file],
                                       s.err, fp)
        ELSE IF m.panic
        THEN [p EXCEPT !.ok = FALSE, !.panic = TRUE, !.handles = s.handles,
                       !.file = s.file]
        ELSE IF ~m.ok
        THEN [p EXCEPT !.ok = FALSE, !.err = "SaveMmioDeviceState",
                       !.handles = s.handles, !.file = s.file, !.ep = m.ep]
        ELSE [p EXCEPT !.handles = s.handles, !.file = s.file, !.ep = m.ep,
                       !.snapshot_image = None]

\* Vmm::pause_to_snapshot: [ok, err, panic, handles, snapshot_image, file, ep].
pause_to_snapshot(fp) ==
    LET v == validate_vcpus_are_active(is_instance_initialized, vcpus_handles)
    IN  IF ~v.ok THEN [PauseFields EXCEPT !.ok = FALSE, !.err = v.val]
        ELSE pause_after_initiate(initiate_vcpu_pause(vcpus_handles, fp), fp)

\* Vmm::stop: stdin leaves the epoll set and the process exits with the code.
stop(ep, code) == [ep |-> disable_stdin_event(ep), exit_code |-> Some(code)]

\* ------------------------------------------------------------------------
\* Runtime updates
\* ------------------------------------------------------------------------
\* Vmm::rescan_block_device: [res, panic].  The unwrap of mmio_device_manager panics
\* when there is none; update_ok is whether the file's metadata can be read and the
\* device accepts the new size.
rescan_block_device(list, drive_id, update_ok) ==
    IF ~is_instance_initialized
    THEN [res |-> Err("OperationNotAllowedPreBoot"), panic |-> FALSE]
    ELSE IF IsNone(mmio_device_manager)
    THEN [res |-> Err("panic"), panic |-> TRUE]
    ELSE IF IsNone(get_index_of_drive_id(list, drive_id))
    THEN [res |-> Err("InvalidBlockDeviceID"), panic |-> FALSE]
    ELSE IF update_ok /\ <<TYPE_BLOCK, drive_id>> \in Unwrap(mmio_device_manager)
    THEN [res |-> Ok("Empty"), panic |-> FALSE]
    ELSE [res |-> Err("BlockDeviceUpdateFailed"), panic |-> FALSE]

\* Vmm::update_drive_handler: [res, ep]; image_ok is whether the live device accepts
\* the new disk image.
update_drive_handler(ep, drive_id, image_ok) ==
    LET h == get_device_handler_by_device_id(ep, TYPE_BLOCK, drive_id)
    IN  IF ~h.ok THEN [res |-> Err("EpollHandlerNotFound"), ep |-> ep]
        ELSE IF ~image_ok THEN [res |-> Err("BlockDeviceUpdateFailed"), ep |-> h.ep]
        ELSE [res |-> Ok("Empty"), ep |-> h.ep]

\* A variant that opens the file before it looks the drive up.
set_block_device_path_open_first(drive_id, path_on_host, image_ok, update_ok) ==
    IF path_on_host \notin ExistingPaths
    THEN [res |-> Err("CannotOpenBlockDevice"), list |-> block_device_configs,
          ep |-> epoll_context, panic |-> FALSE]
    ELSE [res |-> Err("InvalidBlockDeviceID"), list |-> block_device_configs,
          ep |-> epoll_context, panic |-> FALSE]

\* Vmm::set_block_device_path: [res, list, ep, panic].  A path can be opened iff it
\* is one of ExistingPaths.
set_block_device_path(drive_id, path_on_host, image_ok, update_ok) ==
    LET list == block_device_configs
        block_device_index == get_index_of_drive_id(list, drive_id)
        list1 == [list EXCEPT ![Unwrap(block_device_index)].path_on_host = path_on_host]
        u == update_drive_handler(epoll_context, drive_id, image_ok)
        r == rescan_block_device(list1, drive_id, update_ok)
    IN  IF IsNone(block_device_index)
        THEN [res |-> Err("InvalidBlockDeviceID"), list |-> list,
              ep |-> epoll_context, panic |-> FALSE]
        ELSE IF path_on_host \notin ExistingPaths
        THEN [res |-> Err("CannotOpenBlockDevice"), list |-> list,
              ep |-> epoll_context, panic |-> FALSE]
        ELSE IF ~is_instance_initialized
        THEN [res |-> Ok("Empty"), list |-> list1, ep |-> epoll_context, panic |-> FALSE]
        ELSE IF ~u.res.ok
        THEN [res |-> u.res, list |-> list1, ep |-> u.ep, panic |-> FALSE]
        ELSE [res |-> r.res, list |-> list1, ep |-> u.ep, panic |-> r.panic]

\* Vmm::update_net_device: [res, list, ep].  Before boot the stored configuration is
\* updated; afterwards the live device's handler is patched.
update_net_device(new_cfg) ==
    LET list == network_interface_configs
        hit == {i \in 1..Len(list) : list[i].iface_id = new_cfg.iface_id}
        h == get_device_handler_by_device_id(epoll_context, TYPE_NET, new_cfg.iface_id)
    IN  IF ~is_instance_initialized
        THEN IF hit = {}
             THEN [res |-> Err("DeviceIdNotFound"), list |-> list, ep |-> epoll_context]
             ELSE [res |-> Ok("Empty"), ep |-> epoll_context,
                   list |-> [list EXCEPT ![CHOOSE i \in hit : TRUE] =
                                update_net_cfg(@, new_cfg)]]
        ELSE IF ~h.ok
        THEN [res |-> Err("EpollHandlerNotFound"), list |-> list, ep |-> epoll_context]
        ELSE [res |-> Ok("Empty"), list |-> list, ep |-> h.ep]

\* ------------------------------------------------------------------------
\* The VMM thread: Vmm::new, then one request at a time (Vmm::run_vmm_action)
\* ------------------------------------------------------------------------
\* Vmm::new: the API event and the metrics timer are registered.
VmmInit ==
    /\ shared_info = [state |-> "Uninitialized"]
    /\ vm_config = VmConfigDefault
    /\ kernel_config = None
    /\ block_device_configs = <<>>
    /\ network_interface_configs = <<>>
    /\ guest_memory = None
    /\ mmio_device_manager = None
    /\ vcpus_handles = <<>>
    /\ epoll_context = add_event(add_event(EpollContext_new, "VmmActionRequest"),
                                 "WriteMetrics")
    /\ exit_evt = None
    /\ snapshot_image = None
    /\ boot_log = <<>>
    /\ outcome = Sent("none", Ok("Empty"))
    /\ exit_code = None
    /\ panicked = FALSE

\* The thread takes requests while it has neither exited nor panicked.
Alive == IsNone(exit_code) /\ ~panicked

\* The fields a boot or a resume leaves behind.
StoreFields(b) ==
    /\ shared_info' = [shared_info EXCEPT !.state = b.state]
    /\ vm_config' = b.vm_config
    /\ kernel_config' = b.kernel_config
    /\ network_interface_configs' = b.nets
    /\ guest_memory' = b.guest_memory
    /\ mmio_device_manager' = b.mmio
    /\ vcpus_handles' = b.handles
    /\ exit_evt' = b.exit_evt
    /\ snapshot_image' = b.snapshot_image
    /\ boot_log' = boot_log \o b.log

Result(b) == IF b.ok THEN Ok("Empty") ELSE Err(b.err)

\* VmmAction::ConfigureBootSource
ConfigureBootSource(kernel_image_path, boot_args) ==
    LET r == configure_boot_source(kernel_image_path, boot_args)
    IN  /\ Alive
        /\ kernel_config' = r.cfg
        /\ outcome' = Sent("ConfigureBootSource", r.res)
        /\ UNCHANGED <<shared_info, vm_config, block_device_configs,
                       network_interface_configs, guest_memory, mmio_device_manager,
                       vcpus_handles, epoll_context, exit_evt, snapshot_image, boot_log,
                       exit_code, panicked>>

\* VmmAction::SetVmConfiguration
SetVmConfiguration(machine_config) ==
    LET r == set_vm_configuration(machine_config)
    IN  /\ Alive
        /\ vm_config' = r.cfg
        /\ outcome' = Sent("SetVmConfiguration", r.res)
        /\ UNCHANGED <<shared_info, kernel_config, block_device_configs,
                       network_interface_configs, guest_memory, mmio_device_manager,
                       vcpus_handles, epoll_context, exit_evt, snapshot_image, boot_log,
                       exit_code, panicked>>

\* VmmAction::GetVmConfiguration
GetVmConfiguration ==
    /\ Alive
    /\ outcome' = Sent("GetVmConfiguration", OkMachineConfiguration(vm_config))
    /\ UNCHANGED <<shared_info, vm_config, kernel_config, block_device_configs,
                   network_interface_configs, guest_memory, mmio_device_manager,
                   vcpus_handles, epoll_context, exit_evt, snapshot_image, boot_log,
                   exit_code, panicked>>

\* VmmAction::InsertBlockDevice
InsertBlockDevice(block_device_config) ==
    LET r == insert_block_device(block_device_config)
    IN  /\ Alive
        /\ block_device_configs' = r.list
        /\ outcome' = Sent("InsertBlockDevice", r.res)
        /\ UNCHANGED <<shared_info, vm_config, kernel_config,
                       network_interface_configs, guest_memory, mmio_device_manager,
                       vcpus_handles, epoll_context, exit_evt, snapshot_image, boot_log,
                       exit_code, panicked>>

\* VmmAction::InsertNetworkDevice
InsertNetworkDevice(netif_body, tap_ok) ==
    LET r == insert_net_device(netif_body, tap_ok)
    IN  /\ Alive
        /\ network_interface_configs' = r.list
        /\ outcome' = Sent("InsertNetworkDevice", r.res)
        /\ UNCHANGED <<shared_info, vm_config, kernel_config, block_device_configs,
                       guest_memory, mmio_device_manager,
                       vcpus_handles, epoll_context, exit_evt, snapshot_image, boot_log,
                       exit_code, panicked>>

\* VmmAction::UpdateBlockDevicePath
UpdateBlockDevicePath(drive_id, path_on_host, image_ok, update_ok) ==
    LET r == set_block_device_path(drive_id, path_on_host, image_ok, update_ok)
    IN  /\ Alive
        /\ block_device_configs' = r.list
        /\ epoll_context' = r.ep
        /\ panicked' = r.panic
        /\ outcome' = IF r.panic THEN outcome ELSE Sent("UpdateBlockDevicePath", r.res)
        /\ UNCHANGED <<shared_info, vm_config, kernel_config,
                       network_interface_configs, guest_memory, mmio_device_manager,
                       vcpus_handles, exit_evt, snapshot_image, boot_log, exit_code>>

\* VmmAction::UpdateNetworkInterface
UpdateNetworkInterface(netif_update) ==
    LET r == update_net_device(netif_update)
    IN  /\ Alive
        /\ network_interface_configs' = r.list
        /\ epoll_context' = r.ep
        /\ outcome' = Sent("UpdateNetworkInterface", r.res)
        /\ UNCHANGED <<shared_info, vm_config, kernel_config, block_device_configs,
                       guest_memory, mmio_device_manager, vcpus_handles, exit_evt,
                       snapshot_image, boot_log, exit_code, panicked>>

\* VmmAction::RescanBlockDevice
RescanBlockDevice(drive_id, update_ok) ==
    LET r == rescan_block_device(block_device_configs, drive_id, update_ok)
    IN  /\ Alive
        /\ panicked' = r.panic
        /\ outcome' = IF r.panic THEN outcome ELSE Sent("RescanBlockDevice", r.res)
        /\ UNCHANGED <<shared_info, vm_config, kernel_config, block_device_configs,
                       network_interface_configs, guest_memory, mmio_device_manager,
                       vcpus_handles, epoll_context, exit_evt, snapshot_image, boot_log,
                       exit_code>>

\* Vmm::init_logger: init_ok is whether LOGGER.init succeeds.
init_logger(init_ok) ==
    IF is_instance_initialized THEN Err("CannotInitializeLoggerAfterBoot")
    ELSE IF ~init_ok THEN Err("InitializationFailure")
    ELSE Ok("Empty")

\* A handler that changes no field of the Vmm: only its outcome is sent.
Answer(action, res) ==
    /\ Alive
    /\ outcome' = Sent(action, res)
    /\ UNCHANGED <<shared_info, vm_config, kernel_config, block_device_configs,
                   network_interface_configs, guest_memory, mmio_device_manager,
                   vcpus_handles, epoll_context, exit_evt, snapshot_image, boot_log,
                   exit_code, panicked>>

\* VmmAction::ConfigureLogger
ConfigureLogger(init_ok) == Answer("ConfigureLogger", init_logger(init_ok))

\* VmmAction::FlushMetrics: write_ok is whether the metrics could be written.
FlushMetrics(write_ok) ==
    Answer("FlushMetrics", IF write_ok THEN Ok("Empty") ELSE Err("FlushMetrics"))

\* VmmAction::SendCtrlAltDel: trigger_ok is whether the i8042 device takes the keys.
SendCtrlAltDel(trigger_ok) ==
    Answer("SendCtrlAltDel", IF trigger_ok THEN Ok("Empty") ELSE Err("SendCtrlAltDel"))

\* VmmAction::StartMicroVm
StartMicroVm(fp, snapshot_path, stdin_ok) ==
    LET b == start_microvm(fp, snapshot_path, stdin_ok)
    IN  /\ Alive
        /\ StoreFields(b)
        /\ epoll_context' = b.ep
        /\ outcome' = Sent("StartMicroVm", Result(b))
        /\ UNCHANGED <<block_device_configs, exit_code, panicked>>

\* The arm without its stop: the outcome of a failed resume is sent and the process
\* goes on.
ResumeFromSnapshot_no_stop(fp, image, stdin_ok) ==
    LET b == resume_from_snapshot(fp, image, stdin_ok)
    IN  /\ Alive
        /\ StoreFields(b)
        /\ epoll_context' = b.ep
        /\ outcome' = Sent("ResumeFromSnapshot", Result(b))
        /\ UNCHANGED <<block_device_configs, exit_code, panicked>>

\* VmmAction::ResumeFromSnapshot: a failed resume ends the process.
ResumeFromSnapshot(fp, image, stdin_ok) ==
    LET b == resume_from_snapshot(fp, image, stdin_ok)
        s == stop(b.ep, FC_EXIT_CODE_RESUME_ERROR)
    IN  /\ Alive
        /\ StoreFields(b)
        /\ epoll_context' = IF b.ok THEN b.ep ELSE s.ep
        /\ exit_code' = IF b.ok THEN exit_code ELSE s.exit_code
        /\ outcome' = Sent("ResumeFromSnapshot", Result(b))
        /\ UNCHANGED <<block_device_configs, panicked>>

\* The arm VmmAction::PauseToSnapshot of run_vmm_action once pause_to_snapshot has
\* returned p: the outcome is sent; after a success the process exits.  A panic of
\* the handler sends nothing.
PauseToSnapshotReturns(p) ==
    LET s == stop(p.ep, FC_EXIT_CODE_OK)
    IN  /\ vcpus_handles' = p.handles
        /\ snapshot_image' = p.snapshot_image
        /\ snapshot_file' = p.file
        /\ panicked' = p.panic
        /\ outcome' = IF p.panic THEN outcome ELSE Sent("PauseToSnapshot", Result(p))
        /\ epoll_context' = IF p.ok THEN s.ep ELSE p.ep
        /\ exit_code' = IF p.ok THEN s.exit_code ELSE exit_code
        /\ UNCHANGED <<shared_info, vm_config, kernel_config, block_device_configs,
                       network_interface_configs, guest_memory, mmio_device_manager,
                       exit_evt, boot_log>>

\* VmmAction::PauseToSnapshot
PauseToSnapshot(fp) ==
    /\ Alive
    /\ PauseToSnapshotReturns(pause_to_snapshot(fp))

\* VmmAction::PauseVCPUs
PauseVCPUs(first_late) ==
    LET r == pause_vcpus(is_instance_initialized, vcpus_handles, first_late)
    IN  /\ Alive
        /\ vcpus_handles' = r.handles
        /\ outcome' = Sent("PauseVCPUs", r.res)
        /\ UNCHANGED <<shared_info, vm_config, kernel_config, block_device_configs,
                       network_interface_configs, guest_memory, mmio_device_manager,
                       epoll_context, exit_evt, snapshot_image, boot_log,
                       exit_code, panicked>>

\* VmmAction::ResumeVCPUs
ResumeVCPUs(first_late) ==
    LET r == resume_vcpus(is_instance_initialized, vcpus_handles, first_late)
    IN  /\ Alive
        /\ vcpus_handles' = r.handles
        /\ outcome' = Sent("ResumeVCPUs", r.res)
        /\ UNCHANGED <<shared_info, vm_config, kernel_config, block_device_configs,
                       network_interface_configs, guest_memory, mmio_device_manager,
                       epoll_context, exit_evt, snapshot_image, boot_log,
                       exit_code, panicked>>

\* The guest driver activates a virtio device: the device sends its epoll handler
\* over the channel of its slot (MaybeHandler.receiver).
ActivateDevice(slot) ==
    /\ Alive
    /\ instance_state = "Running"
    /\ slot \in 1..Len(epoll_context.device_handlers)
    /\ ~epoll_context.device_handlers[slot].handler
    /\ epoll_context.device_handlers[slot].receiver = 0
    /\ epoll_context' = [epoll_context EXCEPT !.device_handlers[slot].receiver = 1]
    /\ UNCHANGED <<shared_info, vm_config, kernel_config, block_device_configs,
                   network_interface_configs, guest_memory, mmio_device_manager,
                   vcpus_handles, exit_evt, snapshot_image, boot_log, outcome,
                   exit_code, panicked>>

\* ------------------------------------------------------------------------
\* Resource store and API controllers (rpc_interface::controllers)
\* ------------------------------------------------------------------------
\* VmResourceStore::default
VmResourceStore_default ==
    [vm_config |-> VmConfigDefault, boot_source |-> None, block |-> <<>>,
     net |-> <<>>, vsock |-> None]

\* VmResourceStore::set_vm_config: [res, store]; the VmConfig invariants are checked
\* before anything is stored.
VmResourceStore_set_vm_config(store, body) ==
    LET old == store.vm_config
        vc == IF IsSome(body.vcpu_count) THEN Unwrap(body.vcpu_count) ELSE old.vcpu_count
        mem == IF IsSome(body.mem_size_mib) THEN Unwrap(body.mem_size_mib)
               ELSE old.mem_size_mib
        ht == IF IsSome(body.ht_enabled) THEN Unwrap(body.ht_enabled) ELSE old.ht_enabled
    IN  IF vc = 0 THEN [res |-> Err("InvalidVcpuCount"), store |-> store]
        ELSE IF mem = 0 THEN [res |-> Err("InvalidMemorySize"), store |-> store]
        ELSE IF ht /\ vc > 1 /\ vc % 2 = 1
        THEN [res |-> Err("InvalidVcpuCount"), store |-> store]
        ELSE [res |-> Ok("Empty"),
              store |-> [store EXCEPT !.vm_config =
                            [vcpu_count |-> vc, mem_size_mib |-> mem, ht_enabled |-> ht,
                             cpu_template |-> body.cpu_template]]]

\* VmResourceStore::set_boot_source
VmResourceStore_set_boot_source(store, body) ==
    IF body.kernel_image_path # "valid"
    THEN [res |-> Err("InvalidKernelPath"), store |-> store]
    ELSE IF body.boot_args = Some("too_long")
    THEN [res |-> Err("InvalidKernelCommandLine"), store |-> store]
    ELSE [res |-> Ok("Empty"), store |-> [store EXCEPT !.boot_source = Some(body)]]

\* VmResourceStore::set_block_device
VmResourceStore_set_block_device(store, cfg) ==
    LET r == BlockDeviceConfigs_insert(store.block, cfg)
    IN  [res |-> r.res, store |-> [store EXCEPT !.block = r.list]]

\* VmResourceStore::set_net_device
VmResourceStore_set_net_device(store, body, tap_ok) ==
    LET r == NetworkInterfaceConfigs_insert(store.net, body, tap_ok)
    IN  [res |-> r.res, store |-> [store EXCEPT !.net = r.list]]

\* VmResourceStore::set_vsock_device
VmResourceStore_set_vsock_device(store, cfg) ==
    [res |-> Ok("Empty"), store |-> [store EXCEPT !.vsock = Some(cfg)]]

\* builder::build_microvm: [res, vmm].  A built Vmm holds the machine configuration,
\* and per attached device what the runtime controller can change: the disk image of
\* a block device, the token buckets of a net device.  build_ok is whether every
\* boot step succeeds.
build_microvm(store, build_ok) ==
    IF IsNone(store.boot_source) THEN [res |-> Err("MissingKernelConfig"), vmm |-> None]
    ELSE IF ~build_ok THEN [res |-> Err("Internal"), vmm |-> None]
    ELSE [res |-> Ok("Empty"),
          vmm |-> Some([vm_config |-> store.vm_config,
                        block |-> [i \in 1..Len(store.block) |->
                                     [drive_id |-> store.block[i].drive_id,
                                      disk_image |-> store.block[i].path_on_host]],
                        net |-> [i \in 1..Len(store.net) |->
                                   [iface_id |-> store.net[i].iface_id,
                                    rx |-> store.net[i].rx_rate_limiter,
                                    tx |-> store.net[i].tx_rate_limiter]]])]

\* The arm of handle_preboot_request for the operations not allowed pre-boot, as it
\* would be if it answered them with success.
not_supported_preboot_accepting(store, built) ==
    [res |-> Ok("Empty"), store |-> store, built |-> built]

\* The arm of handle_preboot_request for the operations not allowed pre-boot.
not_supported_preboot(store, built) ==
    [res |-> Err("OperationNotSupportedPreBoot"), store |-> store, built |-> built]

\* PrebootApiController::handle_preboot_request: [res, store, built].  request is
\* [kind, body]; env is the environment's answer where the handler asks it (logger
\* or metrics initialisation, opening the tap, the boot steps).
handle_preboot_request(store, built, request, env) ==
    LET kind == request.kind
        with(r) == [res |-> r.res, store |-> r.store, built |-> built]
    IN  CASE kind = "ConfigureBootSource" ->
                with(VmResourceStore_set_boot_source(store, request.body))
          [] kind = "ConfigureLogger" ->
                [res |-> IF env THEN Ok("Empty") ELSE Err("Logger"),
                 store |-> store, built |-> built]
          [] kind = "ConfigureMetrics" ->
                [res |-> IF env THEN Ok("Empty") ELSE Err("Metrics"),
                 store |-> store, built |-> built]
          [] kind = "GetVmConfiguration" ->
                [res |-> OkMachineConfiguration(store.vm_config), store |-> store, built |-> built]
          [] kind = "InsertBlockDevice" ->
                with(VmResourceStore_set_block_device(store, request.body))
          [] kind = "InsertNetworkDevice" ->
                with(VmResourceStore_set_net_device(store, request.body, env))
          [] kind = "SetVsockDevice" ->
                with(VmResourceStore_set_vsock_device(store, request.body))
          [] kind = "SetVmConfiguration" ->
                with(VmResourceStore_set_vm_config(store, request.body))
          [] kind = "StartMicroVm" ->
                LET r == build_microvm(store, env)
                IN  [res |-> r.res, store |-> store,
                     built |-> IF r.res.ok THEN r.vmm ELSE built]
          [] kind \in {"UpdateBlockDevicePath", "UpdateNetworkInterface", "FlushMetrics",
                        "SendCtrlAltDel"} ->
                not_supported_preboot(store, built)

\* RuntimeApiController::update_block_device_path: [res, vmm].  The new image is
\* opened, handed to the device, and the driver is told; env is whether the device
\* and the interrupt accept that.
update_block_device_path(vmm, drive_id, disk_image_path, env) ==
    LET hit == {i \in 1..Len(vmm.block) : vmm.block[i].drive_id = drive_id}
        i == CHOOSE j \in hit : TRUE
    IN  IF hit = {} THEN [res |-> Err("InvalidBlockDeviceID"), vmm |-> vmm]
        ELSE IF disk_image_path \notin ExistingPaths
        THEN [res |-> Err("OpenBlockDevice"), vmm |-> vmm]
        ELSE IF ~env THEN [res |-> Err("BlockDeviceUpdateFailed"), vmm |-> vmm]
        ELSE [res |-> Ok("Empty"),
              vmm |-> [vmm EXCEPT !.block[i].disk_image = disk_image_path]]

\* RuntimeApiController::update_net_rate_limiters: [res, vmm]
update_net_rate_limiters(vmm, new_cfg) ==
    LET hit == {i \in 1..Len(vmm.net) : vmm.net[i].iface_id = new_cfg.iface_id}
        i == CHOOSE j \in hit : TRUE
        patch(old, new) ==
            IF IsNone(new) THEN old
            ELSE IF IsNone(old) THEN new
            ELSE Some(RateLimiterConfig_update(Unwrap(old), Unwrap(new)))
    IN  IF hit = {} THEN [res |-> Err("DeviceIdNotFound"), vmm |-> vmm]
        ELSE [res |-> Ok("Empty"),
              vmm |-> [vmm EXCEPT !.net[i].rx = patch(@, new_cfg.rx_rate_limiter),
                                  !.net[i].tx = patch(@, new_cfg.tx_rate_limiter)]]

\* The arms of handle_request for the operations not allowed post-boot, as they
\* would be if StartMicroVm were answered like the configuration requests.
not_allowed_postboot_uniform(vmm, kind) ==
    [res |-> Err("OperationNotSupportedPostBoot"), vmm |-> vmm]

\* The arms of handle_request for the operations not allowed post-boot: the
\* configuration requests and StartMicroVm.
not_allowed_postboot(vmm, kind) ==
    IF kind = "StartMicroVm"
    THEN [res |-> Err("MicroVMAlreadyRunning"), vmm |-> vmm]
    ELSE [res |-> Err("OperationNotSupportedPostBoot"), vmm |-> vmm]

\* RuntimeApiController::handle_request: [res, vmm]
handle_request(vmm, request, env) ==
    LET kind == request.kind
    IN  CASE kind = "FlushMetrics" ->
                [res |-> IF env THEN Ok("Empty") ELSE Err("InternalVmm"), vmm |-> vmm]
          [] kind = "GetVmConfiguration" ->
                [res |-> OkMachineConfiguration(vmm.vm_config), vmm |-> vmm]
          [] kind = "SendCtrlAltDel" ->
                [res |-> IF env THEN Ok("Empty") ELSE Err("InternalVmm"), vmm |-> vmm]
          [] kind = "UpdateBlockDevicePath" ->
                update_block_device_path(vmm, request.body.drive_id,
                                         request.body.path_on_host, env)
          [] kind = "UpdateNetworkInterface" ->
                update_net_rate_limiters(vmm, request.body)
          [] kind \in {"ConfigureBootSource", "ConfigureLogger", "ConfigureMetrics",
                        "InsertBlockDevice", "InsertNetworkDevice", "SetVsockDevice",
                        "SetVmConfiguration", "StartMicroVm"} ->
                not_allowed_postboot(vmm, kind)

\* ------------------------------------------------------------------------
\* Request inputs
\* ------------------------------------------------------------------------
MachineInputs ==
    [vcpu_count : Opt(0..MaxVcpus), mem_size_mib : Opt(0..MaxMemMib),
     ht_enabled : Opt(BOOLEAN), cpu_template : {"None"}]

DriveInputs ==
    [drive_id : DriveIds, path_on_host : {MissingPath} \cup ExistingPaths,
     is_root_device : BOOLEAN, partuuid : {"None", "uuid"}, is_read_only : BOOLEAN]

NetInputs ==
    [iface_id : IfaceIds, host_dev_name : HostDevNames, guest_mac : {None},
     rx_rate_limiter : {None}, tx_rate_limiter : {None},
     allow_mmds_requests : {FALSE}, tap : {FALSE}]

NetUpdateInputs ==
    [iface_id : 0..MaxNets,
     rx_rate_limiter : Opt([bandwidth : {Some(1)}, ops : {None}]),
     tx_rate_limiter : {None}]

BootSourceInputs == [kernel_image_path : KernelImagePaths, boot_args : BootArgs]

NoFailure == [step |-> "none", k |-> 0, late |-> FALSE]

\* The failures the environment can inject into a boot.
BootFailures ==
    {NoFailure}
    \cup [step : {"create_snapshot_file", "setup_interrupt_controller",
                  "attach_legacy_devices", "load_kernel", "configure_vcpus_for_boot",
                  "configure_system", "register_events", "set_seccomp_level"},
          k : {0}, late : {FALSE}]
    \cup [step : {"init_guest_memory"}, k : 1..2, late : {FALSE}]
    \cup [step : {"attach_block_devices"}, k : 1..MaxDrives, late : BOOLEAN]
    \cup [step : {"attach_net_devices"}, k : 1..MaxNets, late : {FALSE}]
    \cup [step : {"create_vcpus", "start_vcpus", "resume_vcpus"},
          k : 1..MaxVcpus, late : {FALSE}]

\* The failures the environment can inject into a resume.
ResumeFailures ==
    {NoFailure}
    \cup [step : {"open_existing", "setup_interrupt_controller", "restore_state",
                  "attach_legacy_devices", "register_events"},
          k : {0}, late : {FALSE}]
    \cup [step : {"init_guest_memory"}, k : 1..2, late : {FALSE}]
    \cup [step : {"create_vcpus", "start_vcpus", "deserialize_vcpus",
                  "collect_deserialized", "resume_vcpus"},
          k : 1..MaxVcpus, late : {FALSE}]

\* ------------------------------------------------------------------------
\* Snapshot translators (src/vmm/src/translator/mod.rs)
\* ------------------------------------------------------------------------
MaxVersion == 2

\* snapshot::Version
Versions == [major : 0..MaxVersion, minor : 0..MaxVersion, patch : 0..MaxVersion]
Version_new(major, minor, patch) == [major |-> major, minor |-> minor, patch |-> patch]

\* A translator that is built only for two equal versions.
create_snapshot_translator_same_version(current_app_version, other_app_version) ==
    IF current_app_version = other_app_version
    THEN [ok |-> TRUE, val |-> "IdentitySnapshotTranslator", data |-> <<>>]
    ELSE [ok |-> FALSE, val |-> "UnimplementedSnapshotTranslator",
          data |-> <<current_app_version, other_app_version>>]

\* translator::create_snapshot_translator: the match on current_app_version.major().
create_snapshot_translator(current_app_version, other_app_version) ==
    IF current_app_version.major = other_app_version.major
    THEN [ok |-> TRUE, val |-> "IdentitySnapshotTranslator", data |-> <<>>]
    ELSE [ok |-> FALSE, val |-> "UnimplementedSnapshotTranslator",
          data |-> <<current_app_version, other_app_version>>]

\* ------------------------------------------------------------------------
\* CPUID transformer (src/cpuid/src/transformer/mod.rs)
\* A kvm_cpuid_entry2 is [function, eax]: the leaf and what it holds.  A transformer
\* is what its entry_transformer_fn answers for each leaf: "None", or the function it
\* returns, one that updates the entry ("update") or one that fails ("fail").
\* ------------------------------------------------------------------------
MaxEntries == 3
MaxLeaf == 2
MaxReg == 1

CpuidLeaves == 0..MaxLeaf
CpuidEntries == [function : CpuidLeaves, eax : 0..MaxReg]
CpuidTransformers == [CpuidLeaves -> {"None", "update", "fail"}]

\* The transformer that keeps the trait's entry_transformer_fn.
DefaultCpuidTransformer == [leaf \in CpuidLeaves |-> "None"]

\* CpuidTransformer::entry_transformer_fn
entry_transformer_fn(transformer, entry) == transformer[entry.function]

\* An EntryTransformerFn called on an entry: it changes the entry in place or fails.
transformer_fn(fn, entry) ==
    IF fn = "update"
    THEN [ok |-> TRUE, entry |-> [entry EXCEPT !.eax = (@ + 1) % (MaxReg + 1)]]
    ELSE [ok |-> FALSE, entry |-> entry]

\* The loop of process_entries from entry i on; visited holds the positions the loop
\* has been at.
RECURSIVE process_entries_from(_, _, _, _)
process_entries_from(transformer, entries, i, visited) ==
    IF i > Len(entries)
    THEN [ok |-> TRUE, entries |-> entries, visited |-> visited]
    ELSE LET maybe_transformer_fn == entry_transformer_fn(transformer, entries[i])
             r == transformer_fn(maybe_transformer_fn, entries[i])
             seen == Append(visited, i)
         IN  IF maybe_transformer_fn = "None"
             THEN process_entries_from(transformer, entries, i + 1, seen)
             ELSE IF r.ok
             THEN process_entries_from(transformer, [entries EXCEPT ![i] = r.entry],
                                       i + 1, seen)
             ELSE [ok |-> FALSE, entries |-> [entries EXCEPT ![i] = r.entry],
                   visited |-> seen]

\* A loop that starts at the second entry.
process_entries_from_second(transformer, entries) ==
    process_entries_from(transformer, entries, 2, <<>>)

\* CpuidTransformer::process_entries
process_entries(transformer, entries) ==
    process_entries_from(transformer, entries, 1, <<>>)

\* CpuidTransformer::process_cpuid
process_cpuid(transformer, entries) == process_entries(transformer, entries)

\* ------------------------------------------------------------------------
\* Specification of the VMM thread's life cycle (src/vmm/src/lib.rs): every request
\* and every failure of a boot or a resume, over one drive and one interface.
\* ------------------------------------------------------------------------
CtlInit ==
    /\ vm_resources = VmResourceStore_default
    /\ built_vmm = None
    /\ ctl_outcome = [controller |-> "none", request |-> "none", result |-> Ok("Empty")]

\* The main loop before its first event: nothing sent, nothing pending.
LoopInit ==
    /\ from_api = <<>>
    /\ api_sent = 0
    /\ api_event = 0
    /\ api_responses = <<>>
    /\ exit_cause = None
    /\ snapshot_file = <<>>
    /\ sup_pc = [at |-> "idle", i |-> 0]
    /\ barrier = 0
    /\ vcpu_cmd = {}

\* No unit has been called.
UnitInit ==
    /\ translator = [current |-> Version_new(0, 0, 0), other |-> Version_new(0, 0, 0),
                     result |-> None]
    /\ cpuid = [transformer |-> DefaultCpuidTransformer, entries |-> <<>>,
                out |-> <<>>, visited |-> <<>>, result |-> None]

\* The supervisor is between two actions; no event has been sent to a vCPU.
Idle(ops) ==
    [op |-> "none", pc |-> 0, phase |-> "idle", i |-> 0, ops |-> ops,
     snapshot_path |-> None, image |-> None]

StepInit ==
    /\ boot_pc = Idle(0)
    /\ vcpu_events = [i \in 1..MaxVcpus |-> <<>>]
    /\ events_sent = [i \in 1..MaxVcpus |-> <<>>]
    /\ responses_read = [i \in 1..MaxVcpus |-> <<>>]

\* The targets the source has code for (cfg(target_arch)).
TargetArchs == {"x86_64", "aarch64"}

Init ==
    /\ VmmInit /\ CtlInit /\ replaced = None /\ LoopInit /\ UnitInit /\ StepInit
    /\ target_arch = "x86_64"

\* What a step of the VMM thread leaves alone.
rest_vars == <<vm_resources, built_vmm, ctl_outcome, replaced, loop_vars>>

DoConfigureBootSource ==
    /\ \E path \in KernelImagePaths : ConfigureBootSource(path, None)
    /\ UNCHANGED rest_vars
DoConfigureLogger ==
    /\ ConfigureLogger(TRUE)
    /\ UNCHANGED rest_vars
DoSetVmConfiguration ==
    /\ \E body \in {m \in MachineInputs : IsNone(m.mem_size_mib)} : SetVmConfiguration(body)
    /\ UNCHANGED rest_vars
DoGetVmConfiguration ==
    /\ GetVmConfiguration
    /\ UNCHANGED rest_vars
DoInsertBlockDevice ==
    /\ \E cfg \in {d \in DriveInputs : /\ d.drive_id = 1 /\ d.is_root_device
                                      /\ d.partuuid = "None" /\ ~d.is_read_only} :
           InsertBlockDevice(cfg)
    /\ UNCHANGED rest_vars
DoInsertNetworkDevice ==
    /\ \E body \in NetInputs, tap_ok \in BOOLEAN : InsertNetworkDevice(body, tap_ok)
    /\ UNCHANGED rest_vars
DoUpdateBlockDevicePath ==
    /\ \E drive_id \in DriveIds, path \in {MissingPath} \cup ExistingPaths,
          image_ok \in BOOLEAN, update_ok \in BOOLEAN :
           UpdateBlockDevicePath(drive_id, path, image_ok, update_ok)
    /\ UNCHANGED rest_vars
DoUpdateNetworkInterface ==
    /\ \E body \in NetUpdateInputs : UpdateNetworkInterface(body)
    /\ UNCHANGED rest_vars
DoRescanBlockDevice ==
    /\ \E drive_id \in DriveIds, update_ok \in BOOLEAN : RescanBlockDevice(drive_id, update_ok)
    /\ UNCHANGED rest_vars
\* A request the already-running check rejects never looks at what the environment
\* would have done, so the failures are enumerated only for a Vmm that will boot.
DoStartMicroVm ==
    /\ \E fp \in (IF is_instance_initialized THEN {NoFailure} ELSE BootFailures),
          snapshot_path \in Opt({"snap"}) :
           StartMicroVm(fp, snapshot_path, TRUE)
    /\ UNCHANGED rest_vars
DoResumeFromSnapshot ==
    /\ \E fp \in (IF is_instance_initialized THEN {NoFailure} ELSE ResumeFailures),
          image \in SnapshotImages :
           ResumeFromSnapshot(fp, image, TRUE)
    /\ UNCHANGED rest_vars
DoActivateDevice ==
    /\ \E slot \in 1..(MaxDrives + MaxNets) : ActivateDevice(slot)
    /\ UNCHANGED rest_vars
Next ==
    \/ DoConfigureBootSource
    \/ DoConfigureLogger
    \/ DoSetVmConfiguration
    \/ DoGetVmConfiguration
    \/ DoInsertBlockDevice
    \/ DoInsertNetworkDevice
    \/ DoUpdateBlockDevicePath
    \/ DoUpdateNetworkInterface
    \/ DoRescanBlockDevice
    \/ DoStartMicroVm
    \/ DoResumeFromSnapshot
    \/ DoActivateDevice

Spec == Init /\ [][Next]_vars

\* ------------------------------------------------------------------------
\* Properties of the life cycle
\* ------------------------------------------------------------------------
StateWrites == {"Starting", "Resuming", "Running"}
ConfigUnchanged ==
    /\ vm_config' = vm_config
    /\ kernel_config' = kernel_config
    /\ block_device_configs' = block_device_configs
    /\ network_interface_configs' = network_interface_configs
Rejected(o, e) == ~o.result.ok /\ o.result.val = e
BootFailed(o) ==
    /\ o.action = "StartMicroVm"
    /\ ~o.result.ok
    /\ o.result.val \notin {"MicroVMAlreadyRunning", "MissingKernelConfig"}

\* C3 (as stated): a StartMicroVm that fails after the health check leaves the VMM
\* in pre-boot: whenever the last outcome is such a failure, the instance is not
\* initialized.
C3_FailedBootReturnsToPreboot == BootFailed(outcome) => ~is_instance_initialized

\* C4: boot runs at most once: a StartMicroVm received by a Running instance is
\* rejected with MicroVMAlreadyRunning and runs no boot step, and no step or state
\* write is ever run twice.
C4_BootRunsAtMostOnce ==
    [][/\ (/\ instance_state = "Running"
           /\ outcome'.action = "StartMicroVm"
           /\ \E fp \in BootFailures, snapshot_path \in Opt({"snap"}) :
                  StartMicroVm(fp, snapshot_path, TRUE))
            => /\ Rejected(outcome', "MicroVMAlreadyRunning")
               /\ boot_log' = boot_log
               /\ shared_info' = shared_info
       /\ \A i, j \in 1..Len(boot_log') : boot_log'[i] = boot_log'[j] => i = j]_vars

C4_Witness ==
    /\ instance_state = "Running"
    /\ "load_kernel" \in Range(boot_log)
    /\ outcome.action = "StartMicroVm"
    /\ Rejected(outcome, "MicroVMAlreadyRunning")

\* C5: the instance state only moves Uninitialized -> Starting -> Running or
\* Uninitialized -> Resuming -> Running, and it is written Running only after every
\* vCPU has answered Resumed (every vCPU runs and no answer is left unread).
C5_StateMachine ==
    [][/\ SelectSeq(boot_log', LAMBDA x : x \in StateWrites)
            \in {<<>>, <<"Starting">>, <<"Starting", "Running">>,
                 <<"Resuming">>, <<"Resuming", "Running">>}
       /\ instance_state' =
            (IF SelectSeq(boot_log', LAMBDA x : x \in StateWrites) = <<>>
             THEN "Uninitialized"
             ELSE boot_log'[CHOOSE i \in 1..Len(boot_log') :
                               /\ boot_log'[i] \in StateWrites
                               /\ \A j \in (i + 1)..Len(boot_log') :
                                     boot_log'[j] \notin StateWrites])
       /\ (instance_state # "Running" /\ instance_state' = "Running")
            => /\ Len(vcpus_handles') = vm_config'.vcpu_count
               /\ \A i \in 1..Len(vcpus_handles') :
                     /\ vcpus_handles'[i].state = "Running"
                     /\ vcpus_handles'[i].responses = <<>>
               /\ boot_log'[Len(boot_log') - 1] = "resume_vcpus"]_vars

C5_Witness ==
    /\ instance_state = "Running"
    /\ "Resuming" \in Range(boot_log)
    /\ Len(vcpus_handles) = MaxVcpus

\* The step is the handler of one of the five pre-boot configuration requests.
PrebootConfigStep ==
    \/ /\ outcome'.action = "ConfigureBootSource"
       /\ \E body \in BootSourceInputs :
              ConfigureBootSource(body.kernel_image_path, body.boot_args)
    \/ /\ outcome'.action = "ConfigureLogger"
       /\ \E init_ok \in BOOLEAN : ConfigureLogger(init_ok)
    \/ /\ outcome'.action = "InsertBlockDevice"
       /\ \E cfg \in DriveInputs : InsertBlockDevice(cfg)
    \/ /\ outcome'.action = "InsertNetworkDevice"
       /\ \E body \in NetInputs, tap_ok \in BOOLEAN : InsertNetworkDevice(body, tap_ok)
    \/ /\ outcome'.action = "SetVmConfiguration"
       /\ \E body \in MachineInputs : SetVmConfiguration(body)

\* C6: once the instance state is no longer Uninitialized, each of
\* ConfigureBootSource, ConfigureLogger, InsertBlockDevice, InsertNetworkDevice and
\* SetVmConfiguration returns an error and leaves the stored VmConfig, kernel
\* configuration, drive list and network-interface list unchanged.
C6_PostBootConfigRejected ==
    [][(is_instance_initialized /\ PrebootConfigStep)
          => (~outcome'.result.ok /\ ConfigUnchanged)]_vars

\* A SetVmConfiguration that would have been accepted before boot has been refused
\* on a running microVM whose stored config is still the default.
C6_Witness ==
    /\ instance_state = "Running"
    /\ outcome.action = "SetVmConfiguration"
    /\ Rejected(outcome, "UpdateNotAllowedPostBoot")
    /\ vm_config = VmConfigDefault

\* C7: in every reachable state the stored VmConfig has vcpu_count >= 1,
\* mem_size_mib >= 1, and if ht_enabled then vcpu_count is 1 or even.
C7_VmConfigValid == ValidVmConfig(vm_config)

\* The step is the handler of one of the six configuration requests and it has
\* answered (it did not panic).
ConfigStep ==
    \/ PrebootConfigStep
    \/ /\ outcome'.action = "UpdateBlockDevicePath"
       /\ panicked' = panicked
       /\ \E drive_id \in DriveIds, path \in {MissingPath} \cup ExistingPaths,
             image_ok \in BOOLEAN, update_ok \in BOOLEAN :
              UpdateBlockDevicePath(drive_id, path, image_ok, update_ok)
    \/ /\ outcome'.action = "UpdateNetworkInterface"
       /\ \E body \in NetUpdateInputs : UpdateNetworkInterface(body)

\* C8: every configuration request that returns an error leaves the VMM's stored
\* configuration exactly as it was before the request.
C8_FailedConfigChangesNothing ==
    [][(ConfigStep /\ ~outcome'.result.ok) => ConfigUnchanged]_vars

\* ------------------------------------------------------------------------
\* Specification of the drive list (src/vmm/src/lib.rs): every InsertBlockDevice and
\* UpdateBlockDevicePath over MaxDrives drives, before and after a boot. The variable
\* replaced remembers the entry that the last InsertBlockDevice replaced.
\* ------------------------------------------------------------------------
DriveConfigureBootSource ==
    /\ \E path \in KernelImagePaths : ConfigureBootSource(path, None)
    /\ replaced' = None
    /\ UNCHANGED <<ctl_vars, loop_vars>>
DriveInsertBlockDevice ==
    /\ \E cfg \in DriveInputs :
          LET idx == get_index_of_drive_id(block_device_configs, cfg.drive_id)
          IN  /\ InsertBlockDevice(cfg)
              /\ replaced' = IF outcome'.result.ok /\ IsSome(idx)
                             THEN Some(block_device_configs[Unwrap(idx)])
                             ELSE None
    /\ UNCHANGED <<ctl_vars, loop_vars>>
DriveUpdateBlockDevicePath ==
    /\ \E drive_id \in DriveIds, path \in {MissingPath} \cup ExistingPaths,
          image_ok \in BOOLEAN, update_ok \in BOOLEAN :
           UpdateBlockDevicePath(drive_id, path, image_ok, update_ok)
    /\ replaced' = None
    /\ UNCHANGED <<ctl_vars, loop_vars>>
DriveStartMicroVm ==
    /\ StartMicroVm(NoFailure, None, TRUE)
    /\ replaced' = None
    /\ UNCHANGED <<ctl_vars, loop_vars>>
DriveActivateDevice ==
    /\ \E slot \in 1..(MaxDrives + MaxNets) : ActivateDevice(slot)
    /\ replaced' = None
    /\ UNCHANGED <<ctl_vars, loop_vars>>
DriveNext ==
    \/ DriveConfigureBootSource
    \/ DriveInsertBlockDevice
    \/ DriveUpdateBlockDevicePath
    \/ DriveStartMicroVm
    \/ DriveActivateDevice

DriveSpec == Init /\ [][DriveNext]_vars

\* C9: in every reachable state the stored set of block devices has at most one
\* entry with is_root_device = true, pairwise distinct drive_id values and pairwise
\* distinct path_on_host values.
C9_DriveListInvariant ==
    /\ Cardinality({i \in 1..Len(block_device_configs) :
                       block_device_configs[i].is_root_device}) <= 1
    /\ \A i, j \in 1..Len(block_device_configs) :
           i # j => /\ block_device_configs[i].drive_id # block_device_configs[j].drive_id
                    /\ block_device_configs[i].path_on_host
                           # block_device_configs[j].path_on_host

\* C10: an accepted pre-boot InsertBlockDevice whose drive_id already exists replaces
\* that entry with the new configuration: the number of stored drives is unchanged,
\* the list holds the new configuration, and it holds no other entry of that drive_id
\* (so not the old one).
C10_InsertReplaces ==
    [][\A cfg \in DriveInputs :
          (/\ ~is_instance_initialized
           /\ outcome'.action = "InsertBlockDevice"
           /\ outcome'.result.ok
           /\ IsSome(get_index_of_drive_id(block_device_configs, cfg.drive_id))
           /\ InsertBlockDevice(cfg))
          => /\ Len(block_device_configs') = Len(block_device_configs)
             /\ \E i \in 1..Len(block_device_configs') : block_device_configs'[i] = cfg
             /\ \A i \in 1..Len(block_device_configs') :
                    block_device_configs'[i].drive_id = cfg.drive_id
                        => block_device_configs'[i] = cfg]_vars

\* An entry of a two-drive list has just been replaced by a different configuration
\* of the same drive_id.
C10_Witness ==
    /\ IsSome(replaced)
    /\ outcome.action = "InsertBlockDevice"
    /\ outcome.result.ok
    /\ Len(block_device_configs) = 2
    /\ \E i \in 1..2 : /\ block_device_configs[i].drive_id = Unwrap(replaced).drive_id
                       /\ block_device_configs[i] # Unwrap(replaced)

\* ------------------------------------------------------------------------
\* Specification of the API controllers
\* (src/src/vmm/src/rpc_interface/controllers.rs): the pre-boot controller serves the
\* requests until a StartMicroVm has built the Vmm, the runtime controller serves them
\* afterwards.
\* ------------------------------------------------------------------------
ControllerRequests ==
    {[kind |-> kind, body |-> body] :
        kind \in {"ConfigureLogger", "ConfigureMetrics", "GetVmConfiguration",
                  "SetVsockDevice", "StartMicroVm", "FlushMetrics", "SendCtrlAltDel"},
        body \in {"none"}}
    \cup [kind : {"ConfigureBootSource"}, body : BootSourceInputs]
    \cup [kind : {"InsertBlockDevice"}, body : {d \in DriveInputs : /\ d.drive_id = 1 /\ d.partuuid = "None"
                                        /\ ~d.is_read_only}]
    \cup [kind : {"InsertNetworkDevice"}, body : NetInputs]
    \cup [kind : {"SetVmConfiguration"},
          body : {m \in MachineInputs :
                     /\ IsNone(m.mem_size_mib)
                     /\ m.vcpu_count \in Opt({0, MaxVcpus})
                     /\ m.ht_enabled \in Opt({TRUE})}]
    \cup [kind : {"UpdateBlockDevicePath"},
          body : [drive_id : DriveIds, path_on_host : {MissingPath} \cup ExistingPaths]]
    \cup [kind : {"UpdateNetworkInterface"}, body : NetUpdateInputs]

\* One iteration of the loop of build_microvm_from_requests: a request is received
\* and answered by the pre-boot controller.
PrebootRequest(request, env) ==
    LET r == handle_preboot_request(vm_resources, built_vmm, request, env)
    IN  /\ IsNone(built_vmm)
        /\ vm_resources' = r.store
        /\ built_vmm' = r.built
        /\ ctl_outcome' = [controller |-> "preboot", request |-> request.kind,
                           result |-> r.res]
        /\ UNCHANGED vmm_vars
        /\ UNCHANGED <<replaced, loop_vars>>

\* A request is received and answered by the runtime controller.
RuntimeRequest(request, env) ==
    LET r == handle_request(Unwrap(built_vmm), request, env)
    IN  /\ IsSome(built_vmm)
        /\ built_vmm' = Some(r.vmm)
        /\ ctl_outcome' = [controller |-> "runtime", request |-> request.kind,
                           result |-> r.res]
        /\ UNCHANGED vmm_vars
        /\ UNCHANGED <<replaced, vm_resources, loop_vars>>

DoPrebootRequest == \E request \in ControllerRequests, env \in BOOLEAN :
                        PrebootRequest(request, env)
DoRuntimeRequest == \E request \in ControllerRequests, env \in BOOLEAN :
                        RuntimeRequest(request, env)
CtlNext ==
    \/ DoPrebootRequest
    \/ DoRuntimeRequest

CtlSpec == Init /\ [][CtlNext]_vars

\* The requests the pre-boot controller serves, and the requests the runtime
\* controller serves, as spec.md lists them.
PrebootAllowed ==
    {"ConfigureBootSource", "ConfigureLogger", "ConfigureMetrics", "InsertBlockDevice",
     "InsertNetworkDevice", "SetVsockDevice", "SetVmConfiguration", "GetVmConfiguration",
     "StartMicroVm"}
RuntimeAllowed ==
    {"FlushMetrics", "GetVmConfiguration", "UpdateBlockDevicePath",
     "UpdateNetworkInterface", "SendCtrlAltDel", "PauseToSnapshot", "ResumeFromSnapshot",
     "RescanBlockDevice"}

\* C1: in the pre-boot controller every request other than the nine allowed ones
\* fails with OperationNotSupportedPreBoot, and such a rejected request changes
\* neither the resource store nor the built-VMM slot.
C1_PrebootRejects ==
    [][(/\ IsNone(built_vmm)
        /\ ctl_outcome'.request \notin PrebootAllowed
        /\ \E request \in ControllerRequests, env \in BOOLEAN :
               request.kind = ctl_outcome'.request /\ PrebootRequest(request, env))
          => /\ Rejected(ctl_outcome', "OperationNotSupportedPreBoot")
             /\ vm_resources' = vm_resources
             /\ built_vmm' = built_vmm]_vars

\* The pre-boot controller has refused an UpdateBlockDevicePath that names a drive
\* the resource store holds.
C1_Witness ==
    /\ ctl_outcome.controller = "preboot"
    /\ ctl_outcome.request = "UpdateBlockDevicePath"
    /\ Rejected(ctl_outcome, "OperationNotSupportedPreBoot")
    /\ Len(vm_resources.block) = 1
    /\ IsNone(built_vmm)

\* C2 as stated: in the runtime controller every request other than the eight
\* allowed ones fails with OperationNotSupportedPostBoot, StartMicroVm included.
C2_RuntimeRejectsUniformly ==
    [][(/\ IsSome(built_vmm)
        /\ ctl_outcome'.request \notin RuntimeAllowed
        /\ \E request \in ControllerRequests, env \in BOOLEAN :
               request.kind = ctl_outcome'.request /\ RuntimeRequest(request, env))
          => Rejected(ctl_outcome', "OperationNotSupportedPostBoot")]_vars

\* C2: in the runtime controller every request other than the eight allowed ones
\* fails and leaves the built Vmm unchanged: StartMicroVm fails with
\* MicroVMAlreadyRunning, every other one (the pre-boot-only configuration requests,
\* InsertBlockDevice among them) with OperationNotSupportedPostBoot.
C2_RuntimeRejects ==
    [][(/\ IsSome(built_vmm)
        /\ ctl_outcome'.request \notin RuntimeAllowed
        /\ \E request \in ControllerRequests, env \in BOOLEAN :
               request.kind = ctl_outcome'.request /\ RuntimeRequest(request, env))
          => /\ built_vmm' = built_vmm
             /\ vm_resources' = vm_resources
             /\ IF ctl_outcome'.request = "StartMicroVm"
                THEN Rejected(ctl_outcome', "MicroVMAlreadyRunning")
                ELSE Rejected(ctl_outcome', "OperationNotSupportedPostBoot")]_vars

\* The runtime controller has refused a StartMicroVm on a built Vmm that holds a
\* drive.
C2_Witness ==
    /\ IsSome(built_vmm)
    /\ ctl_outcome.controller = "runtime"
    /\ ctl_outcome.request = "StartMicroVm"
    /\ Rejected(ctl_outcome, "MicroVMAlreadyRunning")
    /\ Len(Unwrap(built_vmm).block) = 1

\* ------------------------------------------------------------------------
\* Properties of the kernel command line and the MMIO bus after a boot
\* ------------------------------------------------------------------------
RootFragmentSet == {"root=/dev/vda", "root=PARTUUID=uuid"}
cmdline_of(cfg) == Unwrap(cfg).cmdline
RootPositions(cmdline) == {i \in 1..Len(cmdline) : cmdline[i] \in RootFragmentSet}
BootedByStartMicroVm == instance_state = "Running" /\ "Starting" \in Range(boot_log)

BootedFromVda ==
    /\ BootedByStartMicroVm
    /\ Len(block_device_configs) = 1
    /\ block_device_configs[1].is_root_device
    /\ block_device_configs[1].partuuid = "None"
    /\ ~block_device_configs[1].is_read_only

MaxQueue == 2
MaxActions == 4

\* The actions the API thread sends here.  The queue holds their kind; what an
\* action carries is drawn when it is handled.
LoopActionKinds ==
    {"ConfigureBootSource", "InsertBlockDevice", "StartMicroVm", "RescanBlockDevice",
     "PauseToSnapshot", "ResumeFromSnapshot"}

\* The failures the environment can inject into a PauseToSnapshot.
PauseFailures ==
    {NoFailure}
    \cup [step : {"send_event", "collect", "save_state", "serialize_vcpu"},
          k : 1..2, late : BOOLEAN]
    \cup [step : {"save_vm_state", "sync_header", "sync_memory", "save_mmio_devices"},
          k : {0}, late : BOOLEAN]

\* What makes a vCPU thread leave its run loop and write the exit event.
ExitCauses == {"Shutdown", "Unhandled", "RunFailure"}

\* The API thread sends an action on the channel and writes the event fd.
ApiSend ==
    /\ Alive
    /\ Len(from_api) < MaxQueue
    /\ api_sent < MaxActions
    /\ \E kind \in LoopActionKinds :
           from_api' = Append(from_api, [id |-> api_sent + 1, kind |-> kind])
    /\ api_sent' = api_sent + 1
    /\ api_event' = api_event + 1
    /\ UNCHANGED <<vmm_vars, ctl_vars, replaced, api_responses, exit_cause,
                   snapshot_file, pause_vars, other_vars>>

\* The match of run_vmm_action on the received action: one handler runs.
handle_vmm_action(kind) ==
    \/ /\ kind = "ConfigureBootSource"
       /\ ConfigureBootSource("valid", None)
       /\ UNCHANGED snapshot_file
    \/ /\ kind = "InsertBlockDevice"
       /\ InsertBlockDevice([drive_id |-> 1, path_on_host |-> 1, is_root_device |-> TRUE,
                             partuuid |-> "None", is_read_only |-> FALSE])
       /\ UNCHANGED snapshot_file
    \/ /\ kind = "StartMicroVm"
       /\ \E fp \in (IF is_instance_initialized THEN {NoFailure}
                     ELSE {NoFailure, [step |-> "init_guest_memory", k |-> 1,
                                       late |-> FALSE]}),
             snapshot_path \in Opt({"snap"}) :
              StartMicroVm(fp, snapshot_path, TRUE)
       /\ UNCHANGED snapshot_file
    \/ /\ kind = "RescanBlockDevice"
       /\ RescanBlockDevice(1, TRUE)
       /\ UNCHANGED snapshot_file
    \/ /\ kind = "PauseToSnapshot"
       /\ \E fp \in (IF validate_vcpus_are_active(is_instance_initialized,
                                                  vcpus_handles).ok
                     THEN PauseFailures ELSE {NoFailure}) :
              PauseToSnapshot(fp)
    \/ /\ kind = "ResumeFromSnapshot"
       /\ \E fp \in (IF is_instance_initialized THEN {NoFailure} ELSE ResumeFailures) :
              ResumeFromSnapshot(fp, [vcpu_count |-> 2, mem_size_mib |-> 1], TRUE)
       /\ UNCHANGED snapshot_file

\* Vmm::run_vmm_action for a non-empty channel: one action is received, its handler
\* runs and sends the outcome on the action's channel.  A handler that panics sends
\* nothing.
run_vmm_action ==
    LET request == Head(from_api)
    IN  /\ from_api' = Tail(from_api)
        /\ handle_vmm_action(request.kind)
        /\ api_responses' = IF panicked' THEN api_responses
                            ELSE Append(api_responses, request.id)

\* EpollDispatch::VmmActionRequest: the event fd is read (its counter returns to 0) and
\* run_vmm_action is called; with an empty channel it returns Error::ApiChannel,
\* which is logged as a spurious notification.
EventVmmActionRequest ==
    /\ Alive
    /\ api_event > 0
    /\ api_event' = 0
    /\ IF from_api = <<>>
       THEN UNCHANGED <<vmm_vars, from_api, api_responses, snapshot_file>>
       ELSE run_vmm_action
    /\ UNCHANGED <<ctl_vars, replaced, api_sent, exit_cause, pause_vars, other_vars>>

\* A running vCPU thread leaves its run loop and writes the exit event.
VcpuExit ==
    /\ Alive
    /\ instance_state = "Running"
    /\ IsSome(exit_evt)
    /\ IsNone(exit_cause)
    /\ \E i \in 1..Len(vcpus_handles), cause \in ExitCauses :
          /\ vcpus_handles[i].state = "Running"
          /\ vcpus_handles' = [vcpus_handles EXCEPT ![i].state = "Exited"]
          /\ exit_cause' = Some(cause)
    /\ UNCHANGED <<shared_info, vm_config, kernel_config, block_device_configs,
                   network_interface_configs, guest_memory, mmio_device_manager,
                   epoll_context, exit_evt, snapshot_image, boot_log, outcome,
                   exit_code, panicked>>
    /\ UNCHANGED <<ctl_vars, replaced, from_api, api_sent, api_event, api_responses,
                   snapshot_file, pause_vars, other_vars>>

\* What an event branch that touches only the epoll context, the exit code and the
\* panic flag leaves alone.
event_rest == <<shared_info, vm_config, kernel_config, block_device_configs,
                network_interface_configs, guest_memory, mmio_device_manager,
                vcpus_handles, exit_evt, snapshot_image, boot_log, outcome,
                ctl_vars, replaced, from_api, api_sent, api_event, api_responses,
                snapshot_file, pause_vars, other_vars>>

\* EpollDispatch::Exit: the event is read and the process stops with FC_EXIT_CODE_OK.
EventExit ==
    LET s == stop(epoll_context, FC_EXIT_CODE_OK)
    IN  /\ Alive
        /\ IsSome(exit_cause)
        /\ epoll_context' = s.ep
        /\ exit_code' = s.exit_code
        /\ UNCHANGED <<event_rest, panicked, exit_cause>>

\* run_control returns an error: start_vmm_thread stops the process with
\* FC_EXIT_CODE_GENERIC_ERROR.
run_control_returns ==
    LET s == stop(epoll_context, FC_EXIT_CODE_GENERIC_ERROR)
    IN  /\ epoll_context' = s.ep
        /\ exit_code' = s.exit_code
        /\ UNCHANGED panicked

\* EpollDispatch::Stdin: read is what read_raw returns ("eof": Ok(0), "error": Err,
\* "bytes": Ok(count)); queued is whether the serial device takes the bytes.
StdinEvent(read, queued) ==
    /\ Alive
    /\ epoll_context.dispatch_table[epoll_context.stdin_index + 1].kind = "Stdin"
    /\ IF read # "bytes"
       THEN /\ epoll_context' = disable_stdin_event(epoll_context)
            /\ UNCHANGED <<exit_code, panicked>>
       ELSE IF queued THEN UNCHANGED <<epoll_context, exit_code, panicked>>
       ELSE run_control_returns
    /\ UNCHANGED <<event_rest, exit_cause>>

EventStdin ==
    \E read \in {"eof", "error", "bytes"}, queued \in BOOLEAN : StdinEvent(read, queued)

\* EpollDispatch::DeviceHandler(device_idx, device_token): the handler is looked up
\* and handles the event; handled is what handle_event returns.  PayloadExpected and
\* UnknownEvent panic, a missing handler is logged.
EventDeviceHandler ==
    /\ Alive
    /\ \E idx \in 1..Len(epoll_context.dispatch_table),
          handled \in {"Ok", "PayloadExpected", "UnknownEvent", "Other"} :
          LET d == epoll_context.dispatch_table[idx]
              h == get_device_handler_by_handler_id(epoll_context, d.dev)
          IN  /\ d.kind = "DeviceHandler"
              /\ epoll_context' = h.ep
              /\ panicked' = (h.ok /\ handled \in {"PayloadExpected", "UnknownEvent"})
    /\ UNCHANGED <<event_rest, exit_code, exit_cause>>

\* EpollDispatch::WriteMetrics: the timer is read and the metrics are written; a
\* failure to write them is logged.
EventWriteMetrics ==
    /\ Alive
    /\ instance_state = "Running"
    /\ UNCHANGED <<event_rest, epoll_context, exit_code, panicked, exit_cause>>

\* epoll::wait fails: run_control returns Error::Poll.
EpollWaitFails ==
    /\ Alive
    /\ run_control_returns
    /\ UNCHANGED <<event_rest, exit_cause>>

\* The guest driver activates a virtio device.
LoopActivateDevice ==
    /\ \E slot \in 1..MaxDrives : ActivateDevice(slot)
    /\ UNCHANGED <<ctl_vars, replaced, loop_vars>>

LoopNext ==
    \/ ApiSend
    \/ EventVmmActionRequest
    \/ EventExit
    \/ EventStdin
    \/ EventDeviceHandler
    \/ EventWriteMetrics
    \/ EpollWaitFails
    \/ VcpuExit
    \/ LoopActivateDevice

LoopSpec == Init /\ [][LoopNext]_vars

\* ------------------------------------------------------------------------
\* Properties of the main loop
\* ------------------------------------------------------------------------
\* The step takes the action at the head of the channel.
Dequeues == from_api # <<>> /\ from_api' = Tail(from_api)

\* C13: a step of the supervisor takes at most one action off the channel; the action
\* it takes is answered in that same step, exactly once, before any other action is
\* taken, so the answered actions are the dequeued ones in dequeue order; and no
\* outcome is sent except for the action just dequeued.
C13_OneOutcomePerAction ==
    [][/\ Len(from_api') >= Len(from_api) - 1
       /\ Dequeues => api_responses' = Append(api_responses, Head(from_api).id)
       /\ api_responses' # api_responses => Dequeues]_vars

\* C14: the supervisor thread stops (the process exits, or the thread panics) only
\* in the Exit branch of the main loop; every other event, a failing one included,
\* leaves it alive and back in the wait.
C14_OnlyExitTerminates ==
    [][(Alive /\ ~Alive') => EventExit]_vars

\* The exit code the cause of a VM exit maps to.
ExitCodeOf(cause) ==
    IF cause = "Shutdown" THEN FC_EXIT_CODE_OK ELSE FC_EXIT_CODE_UNEXPECTED_ERROR

\* C15: the Exit branch stops the process with the exit code of the cause that fired
\* the exit event: 0 after a guest shutdown, 2 after an unhandled exit or a failure
\* of a vCPU's run loop.
C15_ExitCodeMapped ==
    [][(IsSome(exit_cause) /\ EventExit)
          => exit_code' = Some(ExitCodeOf(Unwrap(exit_cause)))]_vars

\* The step handles a PauseToSnapshot that got past the validation of the vCPUs, so
\* the pause command is sent.
PauseSent ==
    /\ Alive
    /\ Dequeues
    /\ Head(from_api).kind = "PauseToSnapshot"
    /\ validate_vcpus_are_active(is_instance_initialized, vcpus_handles).ok

\* C16: a PauseToSnapshot that fails after the pause command was sent returns an
\* error (it does not panic), and every vCPU is Running again when it returns.
C16_FailedPauseResumes ==
    [][(PauseSent /\ IsNone(exit_code'))
          => /\ ~panicked'
             /\ outcome'.action = "PauseToSnapshot"
             /\ ~outcome'.result.ok
             /\ \A i \in 1..Len(vcpus_handles') : vcpus_handles'[i].state = "Running"]_vars

\* What the step has added to the snapshot image.
NewWrites == SubSeq(snapshot_file', Len(snapshot_file) + 1, Len(snapshot_file'))

\* C18: a PauseToSnapshot that returns success has read PausedToSnapshot from every
\* vCPU (all are Paused, no response is left unread) and written the state of vCPU i
\* to slot i - 1 and to no other slot; the VM state is written after every vCPU
\* state; the image handle is released; the success outcome is sent for the action
\* and the process exits with code 0.
C18_SuccessfulPauseSaved ==
    [][(PauseSent /\ ~panicked' /\ outcome'.action = "PauseToSnapshot"
          /\ outcome'.result.ok)
          => LET n == Len(vcpus_handles)
                 w == NewWrites
             IN  /\ Len(vcpus_handles') = n
                 /\ \A i \in 1..n :
                       /\ vcpus_handles'[i] = [state |-> "Paused", responses |-> <<>>]
                       /\ \E j \in 1..Len(w) : w[j] = VcpuWrite(i - 1, i)
                 /\ \A j \in 1..Len(w) :
                       w[j].what = "vcpu" => w[j].slot = w[j].vcpu - 1
                 /\ \E k \in 1..Len(w) :
                       /\ w[k] = ImageWrite("vm_state")
                       /\ \A j \in 1..Len(w) : w[j].what = "vcpu" => j < k
                 /\ IsSome(snapshot_image) /\ IsNone(snapshot_image')
                 /\ api_responses' = Append(api_responses, Head(from_api).id)
                 /\ exit_code' = Some(FC_EXIT_CODE_OK)]_vars

\* A snapshot of two vCPUs has been taken and the process has exited.
C18_Witness ==
    /\ outcome = Sent("PauseToSnapshot", Ok("Empty"))
    /\ exit_code = Some(FC_EXIT_CODE_OK)
    /\ Len(vcpus_handles) = 2
    /\ Len(snapshot_file) = 5
    /\ api_responses # <<>>

\* C19: a ResumeFromSnapshot on a Vmm that is not Uninitialized is answered
\* MicroVMAlreadyRunning; the snapshot file is not opened, and the instance state,
\* the VmConfig, the guest memory and the vCPU handles are what they were.
C19_ResumeRejectedWhenInitialized ==
    [][(/\ is_instance_initialized
        /\ outcome'.action = "ResumeFromSnapshot"
        /\ \E image \in SnapshotImages : ResumeFromSnapshot(NoFailure, image, TRUE))
          => /\ outcome'.result = Err("MicroVMAlreadyRunning")
             /\ boot_log' = boot_log
             /\ UNCHANGED <<shared_info, vm_config, guest_memory, vcpus_handles,
                            snapshot_image>>]_vars

\* A running microVM has refused a ResumeFromSnapshot.
C19_Witness ==
    /\ instance_state = "Running"
    /\ outcome = Sent("ResumeFromSnapshot", Err("MicroVMAlreadyRunning"))
    /\ ~("open_existing" \in Range(boot_log))

\* C20: a ResumeFromSnapshot that fails has its error outcome sent for the action and
\* the process stopped with the resume exit code in the same call; once the process
\* has stopped with that code no action is taken off the channel and no outcome is
\* sent any more.
C20_FailedResumeIsFatal ==
    [][/\ (/\ Alive /\ Dequeues
           /\ Head(from_api).kind = "ResumeFromSnapshot"
           /\ ~outcome'.result.ok)
          => /\ outcome'.action = "ResumeFromSnapshot"
             /\ api_responses' = Append(api_responses, Head(from_api).id)
             /\ exit_code' = Some(FC_EXIT_CODE_RESUME_ERROR)
       /\ exit_code = Some(FC_EXIT_CODE_RESUME_ERROR)
          => /\ from_api' = from_api
             /\ api_responses' = api_responses]_vars

\* A resume has failed on a snapshot file that cannot be opened, with another action
\* still on the channel.
C20_Witness ==
    /\ outcome = Sent("ResumeFromSnapshot", Err("OpenSnapshotFile"))
    /\ exit_code = Some(FC_EXIT_CODE_RESUME_ERROR)
    /\ api_responses # <<>>
    /\ from_api # <<>>

\* ------------------------------------------------------------------------
\* Specification of one PauseToSnapshot step by step: the supervisor inside
\* initiate_vcpu_pause and serialize_microvm, and the vCPU threads serving the
\* command, interleaved.  The microVM is brought up by a resume.
\* ------------------------------------------------------------------------
\* Barrier::new(len) in place of Barrier::new(len + 1).
barrier_size_without_supervisor(handles) == Len(handles)

\* The size of the barrier initiate_vcpu_pause creates.
barrier_size(handles) == Len(handles) + 1

\* The barrier has let its waiters go.
barrier_released == barrier >= barrier_size(vcpus_handles)

At(name) == [at |-> name, i |-> 0]

\* What a step of a thread inside the pause leaves alone.
pause_rest == <<ctl_vars, replaced, from_api, api_sent, api_event, api_responses,
                exit_cause, other_vars>>

vmm_but_handles == <<shared_info, vm_config, kernel_config, block_device_configs,
                     network_interface_configs, guest_memory, mmio_device_manager,
                     epoll_context, exit_evt, snapshot_image, boot_log, outcome,
                     exit_code, panicked>>

\* The failures the environment can inject into the part of a PauseToSnapshot that
\* follows the barrier; a response that is missing when it is read is a timeout.
SerializeFailures ==
    {fp \in PauseFailures : fp.step \notin {"send_event", "collect", "save_state"}}

PauseResumeFromSnapshot ==
    /\ sup_pc.at = "idle"
    /\ ~is_instance_initialized
    /\ \E image \in SnapshotImages : ResumeFromSnapshot(NoFailure, image, TRUE)
    /\ UNCHANGED <<ctl_vars, replaced, loop_vars>>

\* pause_to_snapshot is entered: the vCPUs are validated; initiate_vcpu_pause creates
\* the barrier.
SupBegin ==
    /\ Alive
    /\ sup_pc.at = "idle"
    /\ IF validate_vcpus_are_active(is_instance_initialized, vcpus_handles).ok
       THEN /\ sup_pc' = [at |-> "send_event", i |-> 1]
            /\ UNCHANGED <<vmm_vars, snapshot_file>>
       ELSE /\ sup_pc' = At("done")
            /\ PauseToSnapshotReturns(pause_to_snapshot(NoFailure))
    /\ barrier' = 0
    /\ UNCHANGED <<pause_rest, vcpu_cmd>>

\* initiate_vcpu_pause sends PauseToSnapshot(barrier) to the next vCPU and kicks it.
SupSendEvent ==
    /\ Alive
    /\ sup_pc.at = "send_event"
    /\ vcpu_cmd' = vcpu_cmd \cup {sup_pc.i}
    /\ sup_pc' = IF sup_pc.i = Len(vcpus_handles) THEN At("barrier_wait")
                 ELSE [sup_pc EXCEPT !.i = @ + 1]
    /\ UNCHANGED <<vmm_vars, snapshot_file, barrier, pause_rest>>

\* send_event fails: initiate_vcpu_pause returns before the barrier and
\* pause_to_snapshot runs its recovery and returns.
SupSendEventFails ==
    /\ Alive
    /\ sup_pc.at = "send_event"
    /\ sup_pc' = At("done")
    /\ \E late \in BOOLEAN :
          PauseToSnapshotReturns(
              pause_after_initiate([ok |-> FALSE, err |-> "SignalVcpu",
                                    handles |-> vcpus_handles],
                                   [NoFailure EXCEPT !.late = late]))
    /\ UNCHANGED <<barrier, vcpu_cmd, pause_rest>>

\* The supervisor calls wait on the barrier.
SupArrive ==
    /\ Alive
    /\ sup_pc.at = "barrier_wait"
    /\ sup_pc' = At("waiting")
    /\ barrier' = barrier + 1
    /\ UNCHANGED <<vmm_vars, snapshot_file, vcpu_cmd, pause_rest>>

\* The barrier lets the supervisor go: initiate_vcpu_pause returns.
SupPass ==
    /\ Alive
    /\ sup_pc.at = "waiting"
    /\ barrier_released
    /\ sup_pc' = At("serialize")
    /\ UNCHANGED <<vmm_vars, snapshot_file, barrier, vcpu_cmd, pause_rest>>

\* serialize_microvm and the rest of pause_to_snapshot; the outcome is sent.
SupSerialize ==
    /\ Alive
    /\ sup_pc.at = "serialize"
    /\ sup_pc' = At("done")
    /\ \E fp \in SerializeFailures :
          PauseToSnapshotReturns(
              pause_after_initiate([ok |-> TRUE, err |-> "none",
                                    handles |-> vcpus_handles], fp))
    /\ UNCHANGED <<barrier, vcpu_cmd, pause_rest>>

\* A kicked vCPU thread leaves the run call, takes the command and waits on the
\* barrier.
VcpuArrive ==
    /\ IsNone(exit_code)
    /\ \E i \in vcpu_cmd :
          /\ vcpus_handles[i].state = "Running"
          /\ vcpus_handles' = [vcpus_handles EXCEPT ![i].state = "Barrier"]
          /\ vcpu_cmd' = vcpu_cmd \ {i}
    /\ barrier' = barrier + 1
    /\ UNCHANGED <<vmm_but_handles, snapshot_file, sup_pc, pause_rest>>

\* A vCPU thread the barrier has let go saves its state and answers.
VcpuSaveState ==
    /\ IsNone(exit_code)
    /\ barrier_released
    /\ \E i \in 1..Len(vcpus_handles), saved \in BOOLEAN :
          /\ vcpus_handles[i].state = "Barrier"
          /\ vcpus_handles' =
                [vcpus_handles EXCEPT ![i] = vcpu_pause_to_snapshot(@, saved)]
    /\ UNCHANGED <<vmm_but_handles, snapshot_file, pause_vars, pause_rest>>

PauseNext ==
    \/ PauseResumeFromSnapshot
    \/ SupBegin
    \/ SupSendEvent
    \/ SupSendEventFails
    \/ SupArrive
    \/ SupPass
    \/ SupSerialize
    \/ VcpuArrive
    \/ VcpuSaveState

PauseSpec == Init /\ [][PauseNext]_vars

\* C17: when the supervisor runs serialize_microvm (it reads the vCPUs' state
\* responses, saves the VM state and writes the snapshot image), and whenever the
\* snapshot image is written, every vCPU thread has left the run call and arrived at
\* the barrier.
C17_SerializeAfterBarrier ==
    [][((sup_pc.at = "serialize" /\ sup_pc'.at # "serialize")
          \/ snapshot_file' # snapshot_file)
          => \A i \in 1..Len(vcpus_handles) :
                vcpus_handles[i].state \in {"Barrier", "Paused"}]_vars

\* A snapshot of MaxVcpus vCPUs has been taken.
C17_Witness ==
    /\ sup_pc.at = "done"
    /\ Len(vcpus_handles) = MaxVcpus
    /\ outcome = Sent("PauseToSnapshot", Ok("Empty"))
    /\ Len(snapshot_file) = MaxVcpus + 3

\* ------------------------------------------------------------------------
\* Specification of create_snapshot_translator: every pair of versions.
\* ------------------------------------------------------------------------
CreateSnapshotTranslator ==
    /\ IsNone(translator.result)
    /\ \E current \in Versions, other \in Versions :
          translator' = [current |-> current, other |-> other,
                         result |-> Some(create_snapshot_translator(current, other))]
    /\ UNCHANGED <<vmm_vars, ctl_vars, replaced, from_api, api_sent, api_event,
                   api_responses, exit_cause, snapshot_file, pause_vars, cpuid,
                   boot_vars>>

TranslatorNext == CreateSnapshotTranslator

TranslatorSpec == Init /\ [][TranslatorNext]_vars

\* C26: create_snapshot_translator(current, other) returns the identity translator
\* exactly when the two versions have the same major, whatever their minor and patch;
\* otherwise it returns UnimplementedSnapshotTranslator carrying (current, other) in
\* that order.
C26_TranslatorIffSameMajor ==
    IsSome(translator.result) =>
        LET r == Unwrap(translator.result)
        IN  /\ r.ok <=> translator.current.major = translator.other.major
            /\ r.ok => r.val = "IdentitySnapshotTranslator"
            /\ ~r.ok => /\ r.val = "UnimplementedSnapshotTranslator"
                        /\ r.data = <<translator.current, translator.other>>

\* Two versions of the same major that differ in minor and patch got the identity
\* translator.
C26_Witness ==
    /\ IsSome(translator.result)
    /\ Unwrap(translator.result).ok
    /\ translator.current.minor # translator.other.minor
    /\ translator.current.patch # translator.other.patch

\* ------------------------------------------------------------------------
\* Specification of CpuidTransformer::process_cpuid: every transformer over the
\* leaves, every entry vector of at most MaxEntries entries.
\* ------------------------------------------------------------------------
CpuidInputs == UNION {[1..n -> CpuidEntries] : n \in 0..MaxEntries}

ProcessCpuid ==
    /\ IsNone(cpuid.result)
    /\ \E transformer \in CpuidTransformers, entries \in CpuidInputs :
          LET r == process_cpuid(transformer, entries)
          IN  cpuid' = [transformer |-> transformer, entries |-> entries,
                        out |-> r.entries, visited |-> r.visited,
                        result |-> Some(IF r.ok THEN Ok("Empty") ELSE Err("Error"))]
    /\ UNCHANGED <<vmm_vars, ctl_vars, replaced, from_api, api_sent, api_event,
                   api_responses, exit_cause, snapshot_file, pause_vars, translator,
                   boot_vars>>

CpuidNext == ProcessCpuid

CpuidSpec == Init /\ [][CpuidNext]_vars

\* The leaves are where they were and an entry without a transformer is as it was.
LeavesKept ==
    /\ Len(cpuid.out) = Len(cpuid.entries)
    /\ \A i \in 1..Len(cpuid.entries) :
          /\ cpuid.out[i].function = cpuid.entries[i].function
          /\ entry_transformer_fn(cpuid.transformer, cpuid.entries[i]) = "None"
                => cpuid.out[i] = cpuid.entries[i]

\* C27 as stated: after a call of process_cpuid, successful or failed, the vector has
\* the same length and the same leaf at each position, every entry has been visited
\* exactly once, in order, and an entry whose entry_transformer_fn is None is
\* unchanged.
C27_EveryEntryVisitedOnce ==
    IsSome(cpuid.result) =>
        /\ LeavesKept
        /\ cpuid.visited = [i \in 1..Len(cpuid.entries) |-> i]

\* C27: after a call of process_cpuid, successful or failed, the vector has the same
\* length and the same leaf at each position and an entry whose entry_transformer_fn
\* is None is unchanged; a successful call has visited every entry exactly once, in
\* order; a failed call has visited, once and in order, the entries up to the one
\* whose transformer failed, and has left the entries after it unvisited and
\* unchanged.
C27_LeavesKeptEntriesVisitedInOrder ==
    IsSome(cpuid.result) =>
        LET n == Len(cpuid.entries)
            k == Len(cpuid.visited)
        IN  /\ LeavesKept
            /\ cpuid.visited = [i \in 1..k |-> i]
            /\ k <= n
            /\ Unwrap(cpuid.result).ok => k = n
            /\ ~Unwrap(cpuid.result).ok =>
                  /\ k >= 1
                  /\ entry_transformer_fn(cpuid.transformer, cpuid.entries[k]) = "fail"
                  /\ \A i \in (k + 1)..n : cpuid.out[i] = cpuid.entries[i]

\* A call failed at the second of three entries after it had updated the first.
C27_Witness ==
    /\ IsSome(cpuid.result)
    /\ ~Unwrap(cpuid.result).ok
    /\ Len(cpuid.entries) = MaxEntries
    /\ cpuid.visited = <<1, 2>>
    /\ cpuid.out[1] # cpuid.entries[1]

\* ------------------------------------------------------------------------
\* Specification of the EpollContext on its own: its operations that write the
\* dispatch table, in any order, on the context Vmm::new leaves.
\* ------------------------------------------------------------------------
MaxDispatch == 7

epoll_rest == <<shared_info, vm_config, kernel_config, block_device_configs,
                network_interface_configs, guest_memory, mmio_device_manager,
                vcpus_handles, exit_evt, snapshot_image, boot_log, outcome,
                exit_code, panicked, ctl_vars, replaced, loop_vars>>

EpollAddEvent ==
    /\ Len(epoll_context.dispatch_table) < MaxDispatch
    /\ \E token \in {"Exit", "VmmActionRequest", "WriteMetrics"} :
          epoll_context' = add_event(epoll_context, token)
    /\ UNCHANGED epoll_rest

EpollAllocateTokens ==
    /\ \E count \in 0..2 :
          /\ Len(epoll_context.dispatch_table) + count <= MaxDispatch
          /\ Len(epoll_context.device_handlers) < MaxDispatch
          /\ epoll_context' = allocate_tokens(epoll_context, count)
    /\ UNCHANGED epoll_rest

EpollAllocateVirtioTokens ==
    /\ \E type_id \in {TYPE_BLOCK, TYPE_NET}, device_id \in 1..2 :
          LET count == IF type_id = TYPE_BLOCK THEN BLOCK_EVENTS_COUNT
                       ELSE NET_EVENTS_COUNT
          IN  /\ Len(epoll_context.dispatch_table) + count <= MaxDispatch
              /\ epoll_context' =
                    allocate_virtio_tokens(epoll_context, type_id, device_id, count)
    /\ UNCHANGED epoll_rest

EpollEnableStdin ==
    /\ \E ctl_ok \in BOOLEAN :
          epoll_context' = enable_stdin_event(epoll_context, ctl_ok)
    /\ UNCHANGED epoll_rest

EpollDisableStdin ==
    /\ epoll_context' = disable_stdin_event(epoll_context)
    /\ UNCHANGED epoll_rest

EpollNext ==
    \/ EpollAddEvent
    \/ EpollAllocateTokens
    \/ EpollAllocateVirtioTokens
    \/ EpollEnableStdin
    \/ EpollDisableStdin

EpollSpec == Init /\ [][EpollNext]_vars

\* C24: no operation of the EpollContext shortens the dispatch table, a slot that
\* holds Exit, VmmActionRequest, WriteMetrics or DeviceHandler(i, e) holds the same
\* value after it, and the stdin slot stays where it is and holds Stdin or nothing.
C24_DispatchTableAppendOnly ==
    [][LET old == epoll_context.dispatch_table
           new == epoll_context'.dispatch_table
           stdin == epoll_context.stdin_index + 1
       IN  /\ Len(new) >= Len(old)
           /\ epoll_context'.stdin_index = epoll_context.stdin_index
           /\ \A i \in 1..Len(old) :
                 IF i > Len(new) THEN FALSE
                 ELSE IF i = stdin THEN new[i] \in {NoDispatch, Dispatch("Stdin")}
                 ELSE new[i] = old[i] /\ old[i].kind # "None"]_vars

\* The table is full: it holds an Exit slot, the slots of a block device and the slot
\* of a second device, and stdin is enabled.
C24_Witness ==
    /\ Len(epoll_context.dispatch_table) = MaxDispatch
    /\ epoll_context.dispatch_table[epoll_context.stdin_index + 1] = Dispatch("Stdin")
    /\ \E i \in 1..MaxDispatch : epoll_context.dispatch_table[i] = Dispatch("Exit")
    /\ \E i \in 1..MaxDispatch : epoll_context.dispatch_table[i] = DeviceHandler(0, 1)
    /\ \E i \in 1..MaxDispatch : epoll_context.dispatch_table[i] = DeviceHandler(1, 0)
    /\ Len(epoll_context.device_handlers) = 2

\* ------------------------------------------------------------------------
\* Properties of the delivery of device events in the main loop
\* ------------------------------------------------------------------------
\* C25: a device event for a slot whose handler has not been published finds no
\* handler (DeviceEventHandlerNotFound), leaves the slot empty, and the main loop goes
\* on without a panic or an exit; the first event after the publish takes the handler
\* off the slot's channel and caches it; an event for a slot with a cached handler
\* uses it and reads nothing from the channel.  No other slot is touched.
C25_HandlerReceivedOnFirstEvent ==
    [][EventDeviceHandler =>
         \E id \in 0..(Len(epoll_context.device_handlers) - 1) :
            LET before == epoll_context.device_handlers[id + 1]
                after == epoll_context'.device_handlers[id + 1]
                found == get_device_handler_by_handler_id(epoll_context, id).ok
            IN  /\ \A j \in 1..Len(epoll_context.device_handlers) :
                      j # id + 1 => epoll_context'.device_handlers[j]
                                       = epoll_context.device_handlers[j]
                /\ epoll_context'.dispatch_table = epoll_context.dispatch_table
                /\ (~before.handler /\ before.receiver = 0)
                      => ~found /\ after = before /\ ~panicked' /\ IsNone(exit_code')
                /\ (~before.handler /\ before.receiver > 0)
                      => found /\ after.handler /\ after.receiver = before.receiver - 1
                /\ before.handler => found /\ after = before]_vars

\* The handler of a slot has been taken off its channel and cached, and the main loop
\* is running.
C25_Witness ==
    /\ Alive
    /\ instance_state = "Running"
    /\ \E j \in 1..Len(epoll_context.device_handlers) :
          /\ epoll_context.device_handlers[j].handler
          /\ epoll_context.device_handlers[j].receiver = 0

\* ------------------------------------------------------------------------
\* Properties of the timeouts on vCPU responses in the main loop
\* ------------------------------------------------------------------------
\* The step handles a PauseToSnapshot in which a vCPU's state response is not there
\* when serialize_microvm reads it with its timeout.
TimeoutInPause ==
    /\ PauseSent
    /\ \E fp \in PauseFailures :
          /\ fp.step = "collect"
          /\ fp.k \in 1..Len(vcpus_handles)
          /\ PauseToSnapshot(fp)

\* C22: a vCPU response that does not arrive within its timeout fails only the
\* operation: the action gets an error outcome, and the supervisor neither panics nor
\* exits.  Checked for the timeout of the snapshot.
C22_TimeoutFailsOnlyTheOperation ==
    [][TimeoutInPause
          => /\ ~panicked'
             /\ IsNone(exit_code')
             /\ ~outcome'.result.ok
             /\ api_responses' = Append(api_responses, Head(from_api).id)]_vars

\* ------------------------------------------------------------------------
\* Specification of StartMicroVm, ResumeFromSnapshot, PauseVCPUs and ResumeVCPUs
\* statement by statement, on both target architectures, with the vCPU threads
\* serving their event channels in between (src/vmm/src/lib.rs).
\* ------------------------------------------------------------------------
MaxOps == 3

\* The statements of Vmm::start_microvm in the order of the x86_64 build.
start_microvm_steps_x86_64 ==
    <<"is_instance_initialized", "check_health", "Starting", "create_snapshot_file", "init_guest_memory",
      "setup_interrupt_controller", "attach_virtio_devices", "attach_legacy_devices",
      "load_kernel", "create_vcpus", "configure_vcpus_for_boot",
      "configure_system", "register_events", "start_vcpus", "set_seccomp_level",
      "resume_vcpus", "Running", "arm_write_metrics">>

\* The statements of the aarch64 build: no snapshot file; the kernel and the vCPUs
\* come before the interrupt controller and the devices.
start_microvm_steps_aarch64 ==
    <<"is_instance_initialized", "check_health", "Starting", "init_guest_memory",
      "load_kernel", "create_vcpus", "configure_vcpus_for_boot",
      "setup_interrupt_controller", "attach_virtio_devices", "attach_legacy_devices",
      "configure_system", "register_events", "start_vcpus", "set_seccomp_level",
      "resume_vcpus", "Running", "arm_write_metrics">>

\* One order for both targets.
start_microvm_steps_one_order(arch) == start_microvm_steps_x86_64

\* The vCPUs are resumed before the seccomp filters are loaded.
start_microvm_steps_seccomp_late(arch) ==
    LET s == IF arch = "x86_64" THEN start_microvm_steps_x86_64
             ELSE start_microvm_steps_aarch64
        n == Len(s)
    IN  [k \in 1..n |-> IF s[k] = "set_seccomp_level" THEN "resume_vcpus"
                        ELSE IF s[k] = "resume_vcpus" THEN "set_seccomp_level"
                        ELSE s[k]]

\* Vmm::start_microvm: the cfg(target_arch) blocks select the order.
start_microvm_steps(arch) ==
    IF arch = "x86_64" THEN start_microvm_steps_x86_64
    ELSE start_microvm_steps_aarch64

\* Resume is sent before the Deserialized responses are read.
resume_from_snapshot_steps_resume_early ==
    <<"is_instance_initialized", "open_existing", "Resuming", "adopt_image", "init_guest_memory",
      "setup_interrupt_controller", "restore_state", "attach_legacy_devices",
      "new_mmio_device_manager", "register_events", "create_vcpus", "start_vcpus",
      "deserialize_vcpus", "resume_vcpus", "collect_deserialized", "Running">>

\* The statements of Vmm::resume_from_snapshot (x86_64 only).
resume_from_snapshot_steps ==
    <<"is_instance_initialized", "open_existing", "Resuming", "adopt_image", "init_guest_memory",
      "setup_interrupt_controller", "restore_state", "attach_legacy_devices",
      "new_mmio_device_manager", "register_events", "create_vcpus", "start_vcpus",
      "deserialize_vcpus", "collect_deserialized", "resume_vcpus", "Running">>

\* The statements of the action the supervisor is in.
steps_of(op) ==
    CASE op = "StartMicroVm" -> start_microvm_steps(target_arch)
      [] op = "ResumeFromSnapshot" -> resume_from_snapshot_steps
      [] op = "PauseVCPUs" -> <<"pause_vcpus">>
      [] op = "ResumeVCPUs" -> <<"resume_vcpus">>
      [] OTHER -> <<>>

\* The statements that are loops over the vCPU handles.
LoopSteps == {"pause_vcpus", "resume_vcpus", "deserialize_vcpus", "collect_deserialized"}

\* One statement that is not a loop over the vCPUs, applied to the Vmm's fields.
run_step(name, b, fp, pc) ==
    CASE name \in {"Starting", "Resuming", "Running"} -> step_set_state(b, name)
      [] name = "create_snapshot_file" ->
            step_create_snapshot_file(b, fp, pc.snapshot_path)
      [] name = "init_guest_memory" -> step_init_guest_memory(b, fp)
      [] name = "setup_interrupt_controller" -> step_setup_interrupt_controller(b, fp)
      [] name = "attach_virtio_devices" ->
            step_attach_virtio_devices(b, fp, block_device_configs)
      [] name = "attach_legacy_devices" -> step_fallible(b, fp, name, "LegacyIOBus")
      [] name = "load_kernel" -> step_fallible(b, fp, name, "KernelLoader")
      [] name = "create_vcpus" -> step_create_vcpus(b, fp)
      [] name = "configure_vcpus_for_boot" -> step_fallible(b, fp, name, "VcpuConfigure")
      [] name = "configure_system" -> step_fallible(b, fp, name, "ConfigureSystem")
      [] name = "register_events" -> step_register_events(b, fp, TRUE)
      [] name = "start_vcpus" -> step_start_vcpus(b, fp)
      [] name = "set_seccomp_level" -> step_fallible(b, fp, name, "SeccompFilters")
      [] name = "arm_write_metrics" -> Logged(b, name)
      [] name = "open_existing" -> step_open_existing(b, fp)
      [] name = "adopt_image" -> step_adopt_image(b, Unwrap(pc.image))
      [] name = "restore_state" -> step_fallible(b, fp, name, "RestoreVmState")
      [] name = "new_mmio_device_manager" -> step_new_mmio_device_manager(b)
      [] name = "is_instance_initialized" ->
            IF b.state # "Uninitialized" THEN Fail(b, "MicroVMAlreadyRunning") ELSE b
      [] name = "check_health" ->
            IF IsNone(b.kernel_config) THEN Fail(b, "MissingKernelConfig") ELSE b
      [] OTHER -> b

\* The failures the environment can inject into one statement.
failures_of(name) ==
    {NoFailure} \cup
    {fp \in BootFailures \cup ResumeFailures :
        IF name = "attach_virtio_devices"
        THEN fp.step \in {"attach_block_devices", "attach_net_devices"}
        ELSE fp.step = name}

\* An event in a vCPU's channel: Deserialize carries the state read from slot
\* `state` of the image (0 for the events that carry none).
VcpuEvent(kind, state) == [kind |-> kind, state |-> state]

\* SnapshotImage::deser_vcpu(idx): the state in slot idx, written there for vCPU
\* idx + 1 (VcpuWrite).
deser_vcpu(idx) == idx + 1

\* The event a loop sends to vCPU i, the response it reads from every vCPU and the
\* error of a response that is missing or is another one.
loop_event(name, i) ==
    CASE name = "pause_vcpus" -> VcpuEvent("Pause", 0)
      [] name = "resume_vcpus" -> VcpuEvent("Resume", 0)
      [] OTHER -> VcpuEvent("Deserialize", deser_vcpu(i - 1))
loop_expected(name) ==
    CASE name = "pause_vcpus" -> "Paused"
      [] name = "resume_vcpus" -> "Resumed"
      [] OTHER -> "Deserialized"
loop_error(name) ==
    CASE name = "pause_vcpus" -> "VcpuPause"
      [] name = "resume_vcpus" -> "VcpuResume"
      [] OTHER -> "RestoreVcpuState"
loop_sends(name) == name # "collect_deserialized"
loop_receives(name) == name # "deserialize_vcpus"

\* The response the vCPU thread gives to an event.
response_to(kind) ==
    CASE kind = "Pause" -> "Paused"
      [] kind = "Resume" -> "Resumed"
      [] kind = "Deserialize" -> "Deserialized"
      [] OTHER -> "none"

\* The receiving end of an event channel hands out the newest event first.
recv_event_newest(q) == [ev |-> q[Len(q)], rest |-> SubSeq(q, 1, Len(q) - 1)]

\* The vCPU thread's receive on its event channel: the oldest event.
recv_event(q) == [ev |-> Head(q), rest |-> Tail(q)]

\* What a statement of the supervisor or a step of a vCPU thread leaves alone.
boot_rest == <<ctl_vars, replaced, from_api, api_sent, api_event, api_responses,
               exit_cause, snapshot_file, pause_vars, unit_vars, target_arch>>

vmm_data == <<shared_info, vm_config, kernel_config, block_device_configs,
              network_interface_configs, guest_memory, mmio_device_manager,
              exit_evt, snapshot_image>>

\* The boot and the resume keep a log of their statements.
Logs(op) == op \in {"StartMicroVm", "ResumeFromSnapshot"}

\* The statement at boot_pc is done: the next one, or Ok(VmmData::Empty) is sent.
Proceed(ep) ==
    /\ epoll_context' = ep
    /\ exit_code' = exit_code
    /\ IF boot_pc.pc = Len(steps_of(boot_pc.op))
       THEN /\ outcome' = Sent(boot_pc.op, Ok("Empty"))
            /\ boot_pc' = Idle(boot_pc.ops)
       ELSE /\ outcome' = outcome
            /\ boot_pc' = [boot_pc EXCEPT !.pc = @ + 1, !.phase = "step", !.i = 0]

\* The statement at boot_pc returns the error e (`?`): the outcome is sent; the arm
\* of ResumeFromSnapshot then stops the process.
Return(e, ep) ==
    LET s == stop(ep, FC_EXIT_CODE_RESUME_ERROR)
        fatal == boot_pc.op = "ResumeFromSnapshot"
    IN  /\ outcome' = Sent(boot_pc.op, Err(e))
        /\ boot_pc' = Idle(boot_pc.ops)
        /\ epoll_context' = IF fatal THEN s.ep ELSE ep
        /\ exit_code' = IF fatal THEN s.exit_code ELSE exit_code

\* run_vmm_action takes the next action: the supervisor enters its function.
Begin(op, snapshot_path, image) ==
    /\ Alive
    /\ boot_pc.phase = "idle"
    /\ boot_pc.ops < MaxOps
    /\ boot_pc' = [op |-> op, pc |-> 1, phase |-> "step", i |-> 0,
                   ops |-> boot_pc.ops + 1, snapshot_path |-> snapshot_path,
                   image |-> image]
    /\ UNCHANGED <<vmm_vars, vcpu_events, events_sent, responses_read, boot_rest>>

\* The vCPU counts the boots and the images of this specification use.
BootVcpuCounts == 1..2

BootStartMicroVm ==
    \E snapshot_path \in (IF target_arch = "x86_64" THEN Opt({"snap"}) ELSE {None}) :
        Begin("StartMicroVm", snapshot_path, None)

BootResumeFromSnapshot ==
    /\ target_arch = "x86_64"
    /\ \E image \in {m \in SnapshotImages : /\ m.vcpu_count \in BootVcpuCounts
                                             /\ m.mem_size_mib = 1} :
          Begin("ResumeFromSnapshot", None, Some(image))

BootPauseVCPUs ==
    /\ Alive
    /\ Begin("PauseVCPUs", None, None)

BootResumeVCPUs ==
    /\ Alive
    /\ Begin("ResumeVCPUs", None, None)

\* The requests that configure the Vmm, taken before the boot and between two
\* actions.
BootConfigureBootSource ==
    /\ boot_pc.phase = "idle"
    /\ ~is_instance_initialized
    /\ \E path \in KernelImagePaths : ConfigureBootSource(path, None)
    /\ UNCHANGED rest_vars

BootSetVmConfiguration ==
    /\ boot_pc.phase = "idle"
    /\ ~is_instance_initialized
    /\ \E body \in {m \in MachineInputs : /\ IsSome(m.vcpu_count)
                                          /\ Unwrap(m.vcpu_count) \in BootVcpuCounts
                                          /\ IsNone(m.mem_size_mib)
                                          /\ IsNone(m.ht_enabled)} :
          SetVmConfiguration(body)
    /\ UNCHANGED rest_vars

BootInsertBlockDevice ==
    /\ boot_pc.phase = "idle"
    /\ ~is_instance_initialized
    /\ \E cfg \in {d \in DriveInputs : /\ d.drive_id = 1 /\ d.is_root_device
                                      /\ d.path_on_host \in ExistingPaths
                                      /\ d.partuuid = "None" /\ ~d.is_read_only} :
          InsertBlockDevice(cfg)
    /\ UNCHANGED rest_vars

\* One statement of the action that is not a loop over the vCPUs.
BootStep ==
    /\ Alive
    /\ boot_pc.phase = "step"
    /\ LET name == steps_of(boot_pc.op)[boot_pc.pc]
       IN  /\ name \notin LoopSteps
           /\ \E fp \in failures_of(name) :
                 LET b == run_step(name, VmmFields, fp, boot_pc)
                 IN  /\ StoreFields(b)
                     /\ IF b.ok THEN Proceed(b.ep) ELSE Return(b.err, b.ep)
    /\ UNCHANGED <<block_device_configs, panicked, vcpu_events, events_sent,
                   responses_read, boot_rest>>

\* A loop over the vCPU handles is entered; pause_vcpus and resume_vcpus validate the
\* vCPUs first.
BootBeginLoop ==
    /\ Alive
    /\ boot_pc.phase = "step"
    /\ LET name == steps_of(boot_pc.op)[boot_pc.pc]
           v == validate_vcpus_are_active(is_instance_initialized, vcpus_handles)
       IN  /\ name \in LoopSteps
           /\ boot_log' = IF Logs(boot_pc.op) THEN Append(boot_log, name) ELSE boot_log
           /\ IF name \in {"pause_vcpus", "resume_vcpus"} /\ ~v.ok
              THEN Return(v.val, epoll_context)
              ELSE IF vcpus_handles = <<>> THEN Proceed(epoll_context)
              ELSE /\ boot_pc' = [boot_pc EXCEPT
                                     !.phase = IF loop_sends(name) THEN "send" ELSE "recv",
                                     !.i = 1]
                   /\ UNCHANGED <<outcome, epoll_context, exit_code>>
    /\ UNCHANGED <<vmm_data, vcpus_handles, panicked, vcpu_events, events_sent,
                   responses_read, boot_rest>>

\* handle.send_event(..) for the next vCPU of the loop.
BootSendEvent ==
    /\ Alive
    /\ boot_pc.phase = "send"
    /\ LET name == steps_of(boot_pc.op)[boot_pc.pc]
           i == boot_pc.i
           e == loop_event(name, i)
       IN  /\ vcpu_events' = [vcpu_events EXCEPT ![i] = Append(@, e)]
           /\ events_sent' = [events_sent EXCEPT ![i] = Append(@, e)]
           /\ IF i < Len(vcpus_handles)
              THEN /\ boot_pc' = [boot_pc EXCEPT !.i = i + 1]
                   /\ UNCHANGED <<outcome, epoll_context, exit_code>>
              ELSE IF loop_receives(name)
              THEN /\ boot_pc' = [boot_pc EXCEPT !.phase = "recv", !.i = 1]
                   /\ UNCHANGED <<outcome, epoll_context, exit_code>>
              ELSE Proceed(epoll_context)
    /\ UNCHANGED <<vmm_data, vcpus_handles, boot_log, panicked, responses_read,
                   boot_rest>>

\* send_event fails (SignalVcpu), or the state of the vCPU cannot be read from the
\* image (DeserializeVcpu): the function returns.
BootSendEventFails ==
    /\ Alive
    /\ boot_pc.phase = "send"
    /\ LET name == steps_of(boot_pc.op)[boot_pc.pc]
       IN  \E e \in {"SignalVcpu"} \cup
                    (IF name = "deserialize_vcpus" THEN {"DeserializeVcpu"} ELSE {}) :
              Return(e, epoll_context)
    /\ UNCHANGED <<vmm_data, vcpus_handles, boot_log, panicked, vcpu_events,
                   events_sent, responses_read, boot_rest>>

\* recv_timeout returns the oldest response of the next vCPU of the loop.
BootRecvResponse ==
    /\ Alive
    /\ boot_pc.phase = "recv"
    /\ LET name == steps_of(boot_pc.op)[boot_pc.pc]
           i == boot_pc.i
           r == Head(vcpus_handles[i].responses)
       IN  /\ vcpus_handles[i].responses # <<>>
           /\ vcpus_handles' = [vcpus_handles EXCEPT ![i].responses = Tail(@)]
           /\ responses_read' = [responses_read EXCEPT ![i] = Append(@, r)]
           /\ IF r # loop_expected(name) THEN Return(loop_error(name), epoll_context)
              ELSE IF i < Len(vcpus_handles)
              THEN /\ boot_pc' = [boot_pc EXCEPT !.i = i + 1]
                   /\ UNCHANGED <<outcome, epoll_context, exit_code>>
              ELSE Proceed(epoll_context)
    /\ UNCHANGED <<vmm_data, boot_log, panicked, vcpu_events, events_sent, boot_rest>>

\* recv_timeout runs out with nothing in the channel.
BootRecvTimeout ==
    /\ Alive
    /\ boot_pc.phase = "recv"
    /\ vcpus_handles[boot_pc.i].responses = <<>>
    /\ Return(loop_error(steps_of(boot_pc.op)[boot_pc.pc]), epoll_context)
    /\ UNCHANGED <<vmm_data, vcpus_handles, boot_log, panicked, vcpu_events,
                   events_sent, responses_read, boot_rest>>

\* A started vCPU thread receives an event and handles it.
VcpuHandleEvent ==
    /\ IsNone(exit_code)
    /\ \E i \in 1..Len(vcpus_handles) :
          /\ vcpu_events[i] # <<>>
          /\ validate_active(vcpus_handles[i])
          /\ LET r == recv_event(vcpu_events[i])
             IN  /\ vcpus_handles' =
                        [vcpus_handles EXCEPT ![i] = vcpu_handle_event(@, r.ev.kind)]
                 /\ vcpu_events' = [vcpu_events EXCEPT ![i] = r.rest]
    /\ UNCHANGED <<vmm_data, epoll_context, boot_log, outcome, exit_code, panicked,
                   boot_pc, events_sent, responses_read, boot_rest>>

BootInit ==
    /\ VmmInit /\ CtlInit /\ replaced = None /\ LoopInit /\ UnitInit /\ StepInit
    /\ target_arch \in TargetArchs

BootNext ==
    \/ BootConfigureBootSource
    \/ BootSetVmConfiguration
    \/ BootInsertBlockDevice
    \/ BootStartMicroVm
    \/ BootResumeFromSnapshot
    \/ BootPauseVCPUs
    \/ BootResumeVCPUs
    \/ BootStep
    \/ BootBeginLoop
    \/ BootSendEvent
    \/ BootSendEventFails
    \/ BootRecvResponse
    \/ BootRecvTimeout
    \/ VcpuHandleEvent

BootSpec == BootInit /\ [][BootNext]_vars

\* ------------------------------------------------------------------------
\* Properties of the order of the statements
\* ------------------------------------------------------------------------
\* The position of the first entry `name` of the log, 0 if there is none.
PosInLog(name) ==
    IF \E k \in 1..Len(boot_log) : boot_log[k] = name
    THEN CHOOSE k \in 1..Len(boot_log) :
            /\ boot_log[k] = name
            /\ \A j \in 1..(k - 1) : boot_log[j] # name
    ELSE 0
InLog(name) == PosInLog(name) # 0
\* `later` has not been entered, or `earlier` was entered before it.
Precedes(earlier, later) ==
    InLog(later) => (InLog(earlier) /\ PosInLog(earlier) < PosInLog(later))

\* C28: in every state of a boot, on x86_64 no vCPU exists and create_vcpus has not
\* been entered unless setup_interrupt_controller was entered before; on aarch64
\* setup_interrupt_controller is entered only after create_vcpus and
\* configure_vcpus_for_boot, with all vcpu_count vCPUs created.
C28_InterruptControllerOrder ==
    /\ target_arch = "x86_64" =>
          /\ vcpus_handles # <<>> => InLog("setup_interrupt_controller")
          /\ Precedes("setup_interrupt_controller", "create_vcpus")
    /\ target_arch = "aarch64" =>
          /\ Precedes("create_vcpus", "setup_interrupt_controller")
          /\ Precedes("configure_vcpus_for_boot", "setup_interrupt_controller")
          /\ InLog("setup_interrupt_controller") =>
                Len(vcpus_handles) = vm_config.vcpu_count

\* An aarch64 microVM with two vCPUs has booted.
C28_Witness ==
    /\ target_arch = "aarch64"
    /\ outcome = Sent("StartMicroVm", Ok("Empty"))
    /\ shared_info.state = "Running"
    /\ Len(vcpus_handles) = 2
    /\ InLog("setup_interrupt_controller")

\* C29: in every state of a boot, attach_legacy_devices was entered before the
\* MMIO device manager attaches block or net devices, the block devices are attached
\* before the net devices, and load_kernel is entered only after the legacy and the
\* virtio devices have been attached.
C29_LegacyThenVirtioThenKernel ==
    InLog("Starting") =>
        /\ Precedes("attach_legacy_devices", "attach_block_devices")
        /\ Precedes("attach_legacy_devices", "attach_net_devices")
        /\ Precedes("attach_block_devices", "attach_net_devices")
        /\ Precedes("attach_legacy_devices", "load_kernel")
        /\ Precedes("attach_net_devices", "load_kernel")

\* C30: in every state of a boot by StartMicroVm: the statements register_events,
\* start_vcpus, set_seccomp_level, resume_vcpus, the write of Running and the arming
\* of the metrics timer are entered in this order; a started vCPU thread finds the
\* exit event registered; until set_seccomp_level has been entered no vCPU has been
\* sent an event and none is Running; the state is Running only after a Resumed was
\* read from every vCPU; the timer is armed only in state Running.
C30_EndOfBootOrder ==
    InLog("Starting") =>
        /\ Precedes("register_events", "start_vcpus")
        /\ Precedes("start_vcpus", "set_seccomp_level")
        /\ Precedes("set_seccomp_level", "resume_vcpus")
        /\ Precedes("resume_vcpus", "Running")
        /\ Precedes("Running", "arm_write_metrics")
        /\ \A i \in 1..Len(vcpus_handles) :
              /\ vcpus_handles[i].state # "Created" =>
                    /\ IsSome(exit_evt)
                    /\ \E k \in 1..Len(epoll_context.dispatch_table) :
                          epoll_context.dispatch_table[k] = Dispatch("Exit")
              /\ ~InLog("set_seccomp_level") =>
                    /\ vcpus_handles[i].state \in {"Created", "Paused"}
                    /\ events_sent[i] = <<>>
              /\ shared_info.state = "Running" =>
                    \E k \in 1..Len(responses_read[i]) : responses_read[i][k] = "Resumed"
        /\ InLog("arm_write_metrics") => shared_info.state = "Running"

\* An x86_64 microVM with two vCPUs has booted: both run, the timer is armed.
C30_Witness ==
    /\ target_arch = "x86_64"
    /\ InLog("Starting")
    /\ InLog("arm_write_metrics")
    /\ outcome = Sent("StartMicroVm", Ok("Empty"))
    /\ Len(vcpus_handles) = 2
    /\ \A i \in 1..2 : vcpus_handles[i].state = "Running"

\* The supervisor has sent / read this from vCPU i.
SentKind(i, kind) == \E k \in 1..Len(events_sent[i]) : events_sent[i][k].kind = kind
ReadResponse(i, r) == \E k \in 1..Len(responses_read[i]) : responses_read[i][k] = r

\* C21: in every state of a ResumeFromSnapshot: the statements create_vcpus,
\* start_vcpus, the Deserialize loop, the loop reading Deserialized, resume_vcpus and
\* the write of Running are entered in this order; the first event sent to vCPU i
\* is the Deserialize carrying the state saved for vCPU i, and it is sent to a
\* started thread; a Resume has been sent to some vCPU only after a Deserialized was
\* read from every vCPU; the state is Running only after a Resumed was read from
\* every vCPU; once created, the handles are as many as the image's vcpu_count.
C21_ResumeFromSnapshotOrder ==
    InLog("Resuming") =>
        /\ Precedes("create_vcpus", "start_vcpus")
        /\ Precedes("start_vcpus", "deserialize_vcpus")
        /\ Precedes("deserialize_vcpus", "collect_deserialized")
        /\ Precedes("collect_deserialized", "resume_vcpus")
        /\ Precedes("resume_vcpus", "Running")
        /\ \A i \in 1..MaxVcpus :
              events_sent[i] # <<>> =>
                 /\ i <= Len(vcpus_handles)
                 /\ vcpus_handles[i].state # "Created"
                 /\ events_sent[i][1] = VcpuEvent("Deserialize", i)
        /\ (\E j \in 1..MaxVcpus : SentKind(j, "Resume")) =>
              \A i \in 1..Len(vcpus_handles) :
                 /\ SentKind(i, "Deserialize")
                 /\ ReadResponse(i, "Deserialized")
        /\ shared_info.state = "Running" =>
              \A i \in 1..Len(vcpus_handles) : ReadResponse(i, "Resumed")
        /\ InLog("deserialize_vcpus") =>
              Len(vcpus_handles) = Unwrap(snapshot_image).vcpu_count

\* A two-vCPU image has been resumed: both vCPUs got their state and run.
C21_Witness ==
    /\ InLog("Resuming")
    /\ shared_info.state = "Running"
    /\ outcome = Sent("ResumeFromSnapshot", Ok("Empty"))
    /\ Len(vcpus_handles) = 2
    /\ \A i \in 1..2 : /\ vcpus_handles[i].state = "Running"
                       /\ events_sent[i] = <<VcpuEvent("Deserialize", i),
                                             VcpuEvent("Resume", 0)>>

Allocated(ep, ep2, count) ==
    LET h == Len(ep.device_handlers)
        base == dispatch_base(ep)
    IN  /\ Len(ep2.dispatch_table) = base + count
        /\ SubSeq(ep2.dispatch_table, 1, base) = ep.dispatch_table
        /\ \A x \in 0..(count - 1) :
              ep2.dispatch_table[base + 1 + x] = DeviceHandler(h, x)
        /\ Len(ep2.device_handlers) = h + 1
        /\ SubSeq(ep2.device_handlers, 1, h) = ep.device_handlers
        /\ ep2.device_handlers[h + 1] = [handler |-> FALSE, receiver |-> 0]
        /\ ep2.stdin_index = ep.stdin_index

\* C31: a step that is allocate_tokens(count) appends exactly count dispatch entries
\* DeviceHandler(h, 0), ..., DeviceHandler(h, count - 1) behind the old table, h
\* being the index of the one handler slot it adds, and leaves the device map alone;
\* a step that is allocate_virtio_tokens(type, id, count) does the same and binds
\* (type, id), and nothing else, to h; the base returned is the old table length,
\* which is 1 on the context EpollContext::new returns.
C31_AllocateTokensAppendsCount ==
    [][/\ dispatch_base(EpollContext_new) = 1
       /\ \A count \in 0..NET_EVENTS_COUNT :
             /\ epoll_context' = allocate_tokens(epoll_context, count) =>
                   /\ Allocated(epoll_context, epoll_context', count)
                   /\ epoll_context'.device_id_to_handler_id =
                         epoll_context.device_id_to_handler_id
             /\ \A type_id \in {TYPE_BLOCK, TYPE_NET}, device_id \in 1..2 :
                   epoll_context' =
                      allocate_virtio_tokens(epoll_context, type_id, device_id, count) =>
                   /\ Allocated(epoll_context, epoll_context', count)
                   /\ \A e \in epoll_context'.device_id_to_handler_id :
                         IF e.type = type_id /\ e.id = device_id
                         THEN e.handler = Len(epoll_context.device_handlers)
                         ELSE e \in epoll_context.device_id_to_handler_id
                   /\ \E e \in epoll_context'.device_id_to_handler_id :
                         e.type = type_id /\ e.id = device_id]_vars

\* Behind the three slots of Vmm::new, a block device got the slots 3 and 4 and was
\* bound to handler 0, and an allocation of one token got slot 5 for handler 1.
C31_Witness ==
    /\ Len(epoll_context.dispatch_table) = 6
    /\ epoll_context.dispatch_table[4] = DeviceHandler(0, 0)
    /\ epoll_context.dispatch_table[5] = DeviceHandler(0, 1)
    /\ epoll_context.dispatch_table[6] = DeviceHandler(1, 0)
    /\ Len(epoll_context.device_handlers) = 2
    /\ epoll_context.device_id_to_handler_id =
          {[type |-> TYPE_BLOCK, id |-> 1, handler |-> 0]}

\* ------------------------------------------------------------------------
\* Invariant of the indices the EpollContext hands out
\* ------------------------------------------------------------------------
\* C40: in every state of the VMM thread, every DeviceHandler(i, e) of the dispatch
\* table and every handler index of the (device type, device id) map is an index of
\* device_handlers, and every registration add_event made carries as its data the
\* index of the dispatch entry that holds its token.
C40_EpollIndicesValid ==
    LET ep == epoll_context
        n == Len(ep.device_handlers)
    IN  /\ \A k \in 1..Len(ep.dispatch_table) :
              ep.dispatch_table[k].kind = "DeviceHandler" =>
                 ep.dispatch_table[k].dev \in 0..(n - 1)
        /\ \A e \in ep.device_id_to_handler_id : e.handler \in 0..(n - 1)
        /\ \A r \in ep.registered :
              /\ r.data + 1 \in 1..Len(ep.dispatch_table)
              /\ ep.dispatch_table[r.data + 1] = Dispatch(r.token)

\* A boot failed while registering the net device: the block device and the net
\* device have their tokens, only the block device is on the bus, and the exit
\* event was never added.
C40_Witness ==
    /\ outcome = Sent("StartMicroVm", Err("RegisterNetDevice"))
    /\ Len(epoll_context.device_handlers) = 2
    /\ \E e \in epoll_context.device_id_to_handler_id : e.type = TYPE_NET /\ e.handler = 1
    /\ IsSome(mmio_device_manager)
    /\ Cardinality(Unwrap(mmio_device_manager)) = 1
    /\ \A r \in epoll_context.registered : r.token # "Exit"

\* ------------------------------------------------------------------------
\* The stdin event
\* ------------------------------------------------------------------------
stdin_slot(ep) == ep.dispatch_table[ep.stdin_index + 1]

\* C32: a stdin event whose read returns 0 bytes or an error leaves the stdin slot of
\* the dispatch table empty, changes nothing else in the context and does not end the
\* loop; while the slot is empty no step is a Stdin dispatch; disable_stdin_event
\* empties the slot from every state (registered or not) and is idempotent, and an
\* enable whose epoll ctl succeeds after a disable sets the slot again, after which
\* a disable gives back the disabled context.
C32_StdinEofDisables ==
    [][ /\ \A read \in {"eof", "error"}, queued \in BOOLEAN :
              StdinEvent(read, queued) =>
                  /\ stdin_slot(epoll_context) = Dispatch("Stdin")
                  /\ stdin_slot(epoll_context') = NoDispatch
                  /\ epoll_context' =
                         [epoll_context EXCEPT
                              !.dispatch_table[epoll_context.stdin_index + 1] = NoDispatch]
                  /\ exit_code' = exit_code /\ panicked' = panicked
        /\ stdin_slot(epoll_context) = NoDispatch =>
              ~ \E read \in {"eof", "error", "bytes"}, queued \in BOOLEAN :
                    StdinEvent(read, queued)
        /\ LET d == disable_stdin_event(epoll_context)
           IN  /\ stdin_slot(d) = NoDispatch
               /\ disable_stdin_event(d) = d
               /\ stdin_slot(enable_stdin_event(d, TRUE)) = Dispatch("Stdin")
               /\ disable_stdin_event(enable_stdin_event(d, TRUE)) = d
               /\ enable_stdin_event(d, FALSE) = d
      ]_vars

\* The loop is still running with the stdin slot emptied after a guest was booted
\* with stdin enabled: only a stdin event that read EOF or an error does that.
C32_Witness ==
    /\ Alive
    /\ instance_state = "Running"
    /\ stdin_slot(epoll_context) = NoDispatch
    /\ Len(epoll_context.dispatch_table) > 1

\* ------------------------------------------------------------------------
\* Requests on block devices after boot
\* ------------------------------------------------------------------------
DriveErrors ==
    {"CannotOpenBlockDevice", "InvalidBlockDeviceID", "InvalidBlockDevicePath",
     "BlockDevicePathAlreadyExists", "EpollHandlerNotFound", "BlockDeviceUpdateFailed",
     "OperationNotAllowedPreBoot", "UpdateNotAllowedPostBoot",
     "RootBlockDeviceAlreadyAdded"}

\* From<DriveError> for VmmActionError: the ErrorKind of a drive error.
drive_error_kind(e) == IF e \in DriveErrors THEN "User" ELSE "Internal"

\* The block device drive_id is on the bus of the device manager.
DriveOnBus(drive_id) ==
    /\ IsSome(mmio_device_manager)
    /\ <<TYPE_BLOCK, drive_id>> \in Unwrap(mmio_device_manager)

\* C33: RescanBlockDevice is answered with OperationNotAllowedPreBoot while the
\* instance is Uninitialized, with InvalidBlockDeviceID once it is initialized and no
\* configured drive has the id, with BlockDeviceUpdateFailed when the file cannot be
\* examined or the device manager cannot update the device, and with success
\* otherwise; every error is of kind User.
C33_RescanBlockDeviceOutcomes ==
    [][\A drive_id \in DriveIds, update_ok \in BOOLEAN :
          RescanBlockDevice(drive_id, update_ok) =>
              /\ ~panicked'
              /\ outcome' = Sent("RescanBlockDevice",
                     IF instance_state = "Uninitialized"
                     THEN Err("OperationNotAllowedPreBoot")
                     ELSE IF IsNone(get_index_of_drive_id(block_device_configs, drive_id))
                     THEN Err("InvalidBlockDeviceID")
                     ELSE IF ~update_ok \/ ~DriveOnBus(drive_id)
                     THEN Err("BlockDeviceUpdateFailed")
                     ELSE Ok("Empty"))
              /\ ~outcome'.result.ok => drive_error_kind(outcome'.result.val) = "User"
      ]_vars

\* ------------------------------------------------------------------------
\* Specification of the rate limiters of a network interface (src/vmm/src/lib.rs):
\* InsertNetworkDevice, every UpdateNetworkInterface over MaxBucket token buckets,
\* a boot, and the activation of the device by the guest.
\* ------------------------------------------------------------------------
MaxBucket == 2

NetSpecLimiters == Opt([bandwidth : Opt(1..MaxBucket), ops : Opt(1..MaxBucket)])

\* The requests: every pair of limiters for a configured interface id, and two
\* requests for the id 0, which no interface has.
NetSpecUpdates ==
    [iface_id : IfaceIds, rx_rate_limiter : NetSpecLimiters,
     tx_rate_limiter : NetSpecLimiters]
    \cup [iface_id : {0},
          rx_rate_limiter : {None, Some([bandwidth |-> Some(1), ops |-> None])},
          tx_rate_limiter : {None}]

NetConfigureBootSource ==
    /\ ConfigureBootSource("valid", None)
    /\ UNCHANGED rest_vars
NetInsertNetworkDevice ==
    /\ \E body \in NetInputs : InsertNetworkDevice(body, TRUE)
    /\ UNCHANGED rest_vars
NetUpdateNetworkInterface ==
    /\ \E body \in NetSpecUpdates : UpdateNetworkInterface(body)
    /\ UNCHANGED rest_vars
NetStartMicroVm ==
    /\ \E fp \in (IF is_instance_initialized THEN {NoFailure}
                  ELSE {NoFailure,
                        [step |-> "attach_net_devices", k |-> 1, late |-> FALSE],
                        [step |-> "init_guest_memory", k |-> 1, late |-> FALSE]}) :
           StartMicroVm(fp, None, TRUE)
    /\ UNCHANGED rest_vars
NetActivateDevice ==
    /\ \E slot \in 1..MaxNets : ActivateDevice(slot)
    /\ UNCHANGED rest_vars

NetNext ==
    \/ NetConfigureBootSource
    \/ NetInsertNetworkDevice
    \/ NetUpdateNetworkInterface
    \/ NetStartMicroVm
    \/ NetActivateDevice

NetSpec == Init /\ [][NetNext]_vars

\* The token bucket of a stored interface configuration: dir is rx_rate_limiter or
\* tx_rate_limiter, bucket is bandwidth or ops; None when there is no such limiter
\* or the limiter has no such bucket.
BucketOf(cfg, dir, bucket) ==
    IF IsNone(cfg[dir]) THEN None ELSE Unwrap(cfg[dir])[bucket]

\* The epoll handler of the net device iface_id has been published: the device sent
\* it on activation, or an earlier lookup has already taken it into its slot.
NetHandlerPublished(iface_id) ==
    \E e \in epoll_context.device_id_to_handler_id :
        /\ e.type = TYPE_NET /\ e.id = iface_id
        /\ LET maybe == epoll_context.device_handlers[e.handler + 1]
           IN  maybe.handler \/ maybe.receiver > 0

\* C34: before boot UpdateNetworkInterface fails with DeviceIdNotFound for an
\* unknown iface_id and changes nothing; for a known one it succeeds, every bucket
\* (bandwidth, ops) of every limiter (rx, tx) the request names takes the request's
\* value, every other bucket keeps its value, and nothing else of any stored
\* interface changes.  Once the instance is initialized the request fails while the
\* handler of the device is not published and succeeds once it is.
C34_UpdateNetworkInterface ==
    [][\A body \in NetSpecUpdates :
          (outcome'.action = "UpdateNetworkInterface" /\ UpdateNetworkInterface(body)) =>
              LET old == network_interface_configs
                  new == network_interface_configs'
                  known == \E i \in 1..Len(old) : old[i].iface_id = body.iface_id
              IN  IF ~is_instance_initialized
                  THEN /\ outcome'.result.ok = known
                       /\ ~known => /\ outcome'.result = Err("DeviceIdNotFound")
                                    /\ new = old
                       /\ Len(new) = Len(old)
                       /\ \A i \in 1..Len(old) :
                            IF old[i].iface_id # body.iface_id
                            THEN new[i] = old[i]
                            ELSE /\ [new[i] EXCEPT !.rx_rate_limiter = None,
                                                   !.tx_rate_limiter = None]
                                      = [old[i] EXCEPT !.rx_rate_limiter = None,
                                                       !.tx_rate_limiter = None]
                                 /\ \A dir \in {"rx_rate_limiter", "tx_rate_limiter"},
                                       bucket \in {"bandwidth", "ops"} :
                                        BucketOf(new[i], dir, bucket) =
                                            IF IsSome(BucketOf(body, dir, bucket))
                                            THEN BucketOf(body, dir, bucket)
                                            ELSE BucketOf(old[i], dir, bucket)
                  ELSE /\ NetHandlerPublished(body.iface_id) => outcome'.result.ok
                       /\ ~NetHandlerPublished(body.iface_id) => ~outcome'.result.ok
      ]_vars

\* A running guest whose interface was given different rx buckets and a tx ops
\* bucket before boot, and whose update after the activation succeeded.
C34_Witness ==
    /\ instance_state = "Running"
    /\ outcome = Sent("UpdateNetworkInterface", Ok("Empty"))
    /\ \E i \in 1..Len(network_interface_configs) :
          LET cfg == network_interface_configs[i]
          IN  /\ BucketOf(cfg, "rx_rate_limiter", "bandwidth") = Some(1)
              /\ BucketOf(cfg, "rx_rate_limiter", "ops") = Some(2)
              /\ BucketOf(cfg, "tx_rate_limiter", "bandwidth") = None
              /\ BucketOf(cfg, "tx_rate_limiter", "ops") = Some(2)

\* C35: UpdateBlockDevicePath with a drive_id no configured drive has is answered
\* with InvalidBlockDeviceID, of kind User, whether or not the path can be opened,
\* and leaves the drive list, the epoll context and the device manager as they were.
C35_UnknownDriveChangesNothing ==
    [][\A drive_id \in DriveIds, path \in {MissingPath} \cup ExistingPaths,
          image_ok \in BOOLEAN, update_ok \in BOOLEAN :
          (/\ outcome'.action = "UpdateBlockDevicePath"
           /\ \A i \in 1..Len(block_device_configs) :
                  block_device_configs[i].drive_id # drive_id
           /\ UpdateBlockDevicePath(drive_id, path, image_ok, update_ok)) =>
              /\ outcome'.result = Err("InvalidBlockDeviceID")
              /\ drive_error_kind(outcome'.result.val) = "User"
              /\ block_device_configs' = block_device_configs
              /\ epoll_context' = epoll_context
              /\ mmio_device_manager' = mmio_device_manager
              /\ ~panicked'
      ]_vars

\* A running guest with a drive, after a request for the path of another drive.
C35_Witness ==
    /\ instance_state = "Running"
    /\ block_device_configs # <<>>
    /\ outcome = Sent("UpdateBlockDevicePath", Err("InvalidBlockDeviceID"))

\* ------------------------------------------------------------------------
\* Specification of PrebootApiController::build_microvm_from_requests
\* (rpc_interface/controllers.rs): the requests arrive on a channel, recv_req takes
\* the oldest, respond answers it.  The channel holds the kind of each request; what
\* the request carries is drawn when it is handled.  After the function has returned
\* the runtime controller serves the channel.
\* ------------------------------------------------------------------------
BuildRequestKinds ==
    {"ConfigureBootSource", "GetVmConfiguration", "SetVmConfiguration", "StartMicroVm",
     "UpdateBlockDevicePath"}

\* A loop that goes on after the Vmm was built.
loop_condition_always(built) == TRUE

\* The condition of the while loop: preboot_controller.built_vmm.is_none().
loop_condition(built) == IsNone(built)

build_rest == <<replaced, api_event, exit_cause, snapshot_file, pause_vars, other_vars>>

BuildSendRequest ==
    /\ Len(from_api) < MaxQueue
    /\ api_sent < MaxActions
    /\ \E kind \in BuildRequestKinds :
           from_api' = Append(from_api, [id |-> api_sent + 1, kind |-> kind])
    /\ api_sent' = api_sent + 1
    /\ UNCHANGED <<vmm_vars, ctl_vars, api_responses, build_rest>>

\* One iteration: respond(preboot_controller.handle_preboot_request(recv_req())).
BuildIteration ==
    /\ loop_condition(built_vmm)
    /\ from_api # <<>>
    /\ \E request \in ControllerRequests, env \in BOOLEAN :
          LET r == handle_preboot_request(vm_resources, built_vmm, request, env)
          IN  /\ request.kind = Head(from_api).kind
              /\ vm_resources' = r.store
              /\ built_vmm' = r.built
              /\ ctl_outcome' = [controller |-> "preboot", request |-> request.kind,
                                 result |-> r.res]
    /\ from_api' = Tail(from_api)
    /\ api_responses' = Append(api_responses, Head(from_api).id)
    /\ UNCHANGED <<vmm_vars, api_sent, build_rest>>

\* The function has returned; a request is served by the runtime controller.
BuildRuntimeRequest ==
    /\ ~loop_condition(built_vmm)
    /\ IsSome(built_vmm)
    /\ from_api # <<>>
    /\ \E request \in ControllerRequests, env \in BOOLEAN :
          LET r == handle_request(Unwrap(built_vmm), request, env)
          IN  /\ request.kind = Head(from_api).kind
              /\ built_vmm' = Some(r.vmm)
              /\ ctl_outcome' = [controller |-> "runtime", request |-> request.kind,
                                 result |-> r.res]
    /\ from_api' = Tail(from_api)
    /\ api_responses' = Append(api_responses, Head(from_api).id)
    /\ UNCHANGED <<vmm_vars, vm_resources, api_sent, build_rest>>

BuildNext ==
    \/ BuildSendRequest
    \/ BuildIteration
    \/ BuildRuntimeRequest

BuildSpec == Init /\ [][BuildNext]_vars

ApiActionKinds == {"ConfigureBootSource", "InsertBlockDevice", "RescanBlockDevice"}

\* The API thread: the action is sent on the channel and the event fd is written.
ApiSendAction ==
    /\ Alive
    /\ Len(from_api) < MaxQueue
    /\ api_sent < MaxActions
    /\ \E kind \in ApiActionKinds :
           from_api' = Append(from_api, [id |-> api_sent + 1, kind |-> kind])
    /\ api_sent' = api_sent + 1
    /\ api_event' = api_event + 1
    /\ UNCHANGED <<vmm_vars, ctl_vars, replaced, api_responses, exit_cause,
                   snapshot_file, pause_vars, other_vars>>

ApiNext ==
    \/ ApiSendAction
    \/ EventVmmActionRequest

ApiSpec == Init /\ [][ApiNext]_vars

ApiFairSpec == ApiSpec /\ WF_vars(EventVmmActionRequest)

\* The action with this id has been answered.
Answered(id) == \E i \in 1..Len(api_responses) : api_responses[i] = id

\* C37: every action pushed on the channel is eventually dequeued and answered,
\* unless the process stops first, also when several actions were pushed before
\* the supervisor read the event fd.
C37_EveryActionAnswered ==
    \A id \in 1..MaxActions : (api_sent >= id) ~> (Answered(id) \/ ~Alive)

\* ------------------------------------------------------------------------
\* Responses left in the channels of the vCPUs
\* ------------------------------------------------------------------------
\* C38: whenever the supervisor is alive and between two operations (the last pause
\* or resume has returned, with success, an error or a timeout), no vCPU's response
\* channel holds an unread response.
C38_NoResponseLeftUnread ==
    (Alive /\ boot_pc.phase = "idle") =>
        \A i \in 1..Len(vcpus_handles) : vcpus_handles[i].responses = <<>>

\* ------------------------------------------------------------------------
\* PauseToSnapshot with threads that keep running: the supervisor goes on sending
\* the command and calls wait, a kicked vCPU thread reaches the barrier, and a thread
\* the barrier lets go goes on.  Failures stay up to the environment.
\* ------------------------------------------------------------------------
PauseFairSpec ==
    /\ PauseSpec
    /\ WF_vars(SupSendEvent) /\ WF_vars(SupArrive) /\ WF_vars(SupPass)
    /\ WF_vars(VcpuArrive) /\ WF_vars(VcpuSaveState)

\* vCPU i waits on the barrier of the pause.
AtBarrier(i) == i <= Len(vcpus_handles) /\ vcpus_handles[i].state = "Barrier"

\* C39: no thread waits on the pause barrier forever: the supervisor's wait returns,
\* and a vCPU that has taken the PauseToSnapshot command and waits on the barrier
\* leaves it, unless the process exits first.
C39_NoThreadBlockedAtBarrier ==
    /\ (sup_pc.at = "waiting") ~> (sup_pc.at # "waiting" \/ IsSome(exit_code))
    /\ \A i \in 1..MaxVcpus : AtBarrier(i) ~> (~AtBarrier(i) \/ IsSome(exit_code))

=============================================================================
